---- MODULE Spec2Model ----
(***************************************************************************)
(* GreenFlow: the derived-metrics engine (carbon footprint, green score,   *)
(* ESG score, waste risk, aggregate score) and the REST handlers that      *)
(* store or report the derived fields.                                     *)
(*                                                                         *)
(* Conventions of the model                                                *)
(*  - A request body is a function whose DOMAIN is the set of keys the     *)
(*    client supplied (a JavaScript object); Has/Get read it.              *)
(*  - Absent (-1) stands for undefined/null in a numeric position, ""      *)
(*    for an undefined/empty string.                                       *)
(*  - One document of each collection is followed; the handlers address a  *)
(*    document by its id and touch no other document of the collection.    *)
(*  - Numbers are integers; carbonKg is carried in hundredths of a kg      *)
(*    (the code rounds it to two decimals). The code computes in doubles:  *)
(*    on the inputs drawn here the double results are exactly the values   *)
(*    of the integer arithmetic below. (At an exact tie of the third       *)
(*    decimal a double product can fall just under the tie, e.g. 50 km,    *)
(*    575 units by ship gives 0.57; no such input is drawn.)               *)
(***************************************************************************)
EXTENDS Integers, Sequences, FiniteSets, TLC

VARIABLES
    product,    \* the followed Product document, or NoDoc
    supplier,   \* the followed Supplier document, or NoDoc
    shipment,   \* the followed Shipment document, or NoDoc
    alert,      \* the followed WasteAlert document, or NoDoc
    lastReq,    \* summary of the request handled last
    resp,       \* the response sent for it
    inflight,   \* per-request progress of concurrently running handlers
    calc,       \* input and result of a directly invoked calculator
    userAccount, \* the followed User document, or NoDoc
    client      \* the state of the browser application, or NoClient

vars == <<product, supplier, shipment, alert, lastReq, resp, inflight, calc, userAccount, client>>

Absent == -1
NoDoc == [exists |-> FALSE]

Has(b, k) == k \in DOMAIN b
Get(b, k, d) == IF k \in DOMAIN b THEN b[k] ELSE d
Without(b, ks) == [k \in (DOMAIN b) \ ks |-> b[k]]
EmptyBody == [k \in {} |-> 0]
Opt(k, S) == {EmptyBody} \cup {k :> v : v \in S}
Max(a, b) == IF a >= b THEN a ELSE b
Min(a, b) == IF a <= b THEN a ELSE b

NoReq == [op |-> "none", derived |-> Absent]
NoResp == [op |-> "none", code |-> 0, derived |-> Absent]
NoCalc == [fn |-> "none"]
NoFlight == [k \in {} |-> 0]
NoClient == [page |-> "none"]

(***************************************************************************)
(* Product: green score                                                    *)
(***************************************************************************)
PackagingTypes == {"plastic", "recyclable", "compostable", "biodegradable", "minimal"}

\* The packaging table without the penalty for plastic.
packagingScoresNoPenalty(t) ==
    CASE t = "minimal" -> 25
      [] t = "compostable" -> 20
      [] t = "biodegradable" -> 15
      [] t = "recyclable" -> 10
      [] OTHER -> 0

packagingScores(t) ==
    CASE t = "minimal" -> 25
      [] t = "compostable" -> 20
      [] t = "biodegradable" -> 15
      [] t = "recyclable" -> 10
      [] t = "plastic" -> -10
      [] OTHER -> 0

\* The score returned as summed.
unclampedScore(score) == score

\* Math.max(0, Math.min(100, score))
clampScore(score) == Max(0, Min(100, score))

calculateGreenScore(p) ==
    LET cf == p.sustainabilityMetrics.carbonFootprint
        wf == p.sustainabilityMetrics.waterFootprint
        carbonAdj == IF cf < 1 THEN 20 ELSE IF cf < 5 THEN 15
                     ELSE IF cf < 10 THEN 10 ELSE IF cf > 20 THEN -15 ELSE 0
        waterAdj == IF wf < 10 THEN 15 ELSE IF wf < 50 THEN 10
                    ELSE IF wf > 100 THEN -10 ELSE 0
        spoilAdj == IF p.baseSpoilageRate < 2 THEN 10
                    ELSE IF p.baseSpoilageRate < 5 THEN 5
                    ELSE IF p.baseSpoilageRate > 15 THEN -10 ELSE 0
        score == 50 + packagingScores(p.packagingType) + carbonAdj + waterAdj
                 + Len(p.certifications) * 5 + spoilAdj
    IN clampScore(score)

\* Mongoose fills the schema defaults of a nested object's missing fields.
ProductMetrics(o) ==
    [carbonFootprint |-> Get(o, "carbonFootprint", 0),
     waterFootprint |-> Get(o, "waterFootprint", 0),
     greenScore |-> Get(o, "greenScore", 50)]

GreenScoreInputs == {"packagingType", "sustainabilityMetrics", "certifications", "baseSpoilageRate"}

\* productSchema.pre('save'): recompute when one of the four paths is modified.
productPreSave(doc, modified) ==
    IF modified \cap GreenScoreInputs # {}
    THEN [doc EXCEPT !.sustainabilityMetrics.greenScore = calculateGreenScore(doc)]
    ELSE doc

\* new Product({...}) as POST /api/products builds it from the body.
NewProduct(b) ==
    [exists |-> TRUE,
     packagingType |-> b.packagingType,
     baseSpoilageRate |-> Get(b, "baseSpoilageRate", 5),
     certifications |-> Get(b, "certifications", <<>>),
     sustainabilityMetrics |-> ProductMetrics(Get(b, "sustainabilityMetrics", EmptyBody))]

\* Product.findByIdAndUpdate(id, updateData): a $set of every key of the
\* update; a nested object replaces the stored one; no save middleware runs.
productFindByIdAndUpdate(doc, u) ==
    LET sm == IF Has(u, "sustainabilityMetrics")
              THEN ProductMetrics(u.sustainabilityMetrics)
              ELSE doc.sustainabilityMetrics
    IN [exists |-> TRUE,
        packagingType |-> Get(u, "packagingType", doc.packagingType),
        baseSpoilageRate |-> Get(u, "baseSpoilageRate", doc.baseSpoilageRate),
        certifications |-> Get(u, "certifications", doc.certifications),
        sustainabilityMetrics |->
            [sm EXCEPT !.greenScore =
                Get(u, "sustainabilityMetrics.greenScore", sm.greenScore)]]

\* What the PUT handler removes from the body before the update.
productUpdateData(b) == Without(b, {"sku", "supplierId", "sustainabilityMetrics.greenScore"})

\* The greenScore a body carries, nested or under the dotted key.
SuppliedGreenScore(b) ==
    IF Has(b, "sustainabilityMetrics.greenScore") THEN b["sustainabilityMetrics.greenScore"]
    ELSE IF Has(b, "sustainabilityMetrics") /\ Has(b.sustainabilityMetrics, "greenScore")
    THEN b.sustainabilityMetrics.greenScore
    ELSE Absent

PackagingInputs == {"plastic", "minimal"}
SpoilageInputs == {1, 20}
CertificationInputs == {<<>>, <<"Organic">>}
FootprintInputs == {0, 25}
WaterInputs == {150}
GreenScoreSupplied == {99}

ProductMetricsBodies ==
    {a @@ b @@ c : a \in Opt("carbonFootprint", FootprintInputs),
                   b \in Opt("waterFootprint", WaterInputs),
                   c \in Opt("greenScore", GreenScoreSupplied)}

ProductOptionalBodies ==
    {a @@ b @@ c @@ d : a \in Opt("baseSpoilageRate", SpoilageInputs),
                        b \in Opt("certifications", CertificationInputs),
                        c \in Opt("sustainabilityMetrics", ProductMetricsBodies),
                        d \in Opt("sustainabilityMetrics.greenScore", GreenScoreSupplied)}

ProductCreateBodies ==
    {a @@ b : a \in {"packagingType" :> v : v \in PackagingInputs},
              b \in ProductOptionalBodies}

ProductUpdateBodies ==
    {a @@ b : a \in Opt("packagingType", PackagingInputs),
              b \in ProductOptionalBodies}

\* POST /api/products
PostProduct(b) ==
    /\ product = NoDoc
    /\ LET doc == productPreSave(NewProduct(b), DOMAIN b)
       IN /\ product' = doc
          /\ resp' = [op |-> "POST /api/products", code |-> 201,
                      derived |-> doc.sustainabilityMetrics.greenScore]
    /\ lastReq' = [op |-> "POST /api/products", derived |-> SuppliedGreenScore(b)]
    /\ UNCHANGED <<supplier, shipment, alert, inflight, calc, userAccount, client>>

\* PUT /api/products/:id
PutProduct(b) ==
    /\ product # NoDoc
    /\ LET doc == productFindByIdAndUpdate(product, productUpdateData(b))
       IN /\ product' = doc
          /\ resp' = [op |-> "PUT /api/products/:id", code |-> 200,
                      derived |-> doc.sustainabilityMetrics.greenScore]
    /\ lastReq' = [op |-> "PUT /api/products/:id", derived |-> SuppliedGreenScore(b)]
    /\ UNCHANGED <<supplier, shipment, alert, inflight, calc, userAccount, client>>

InitProduct ==
    /\ product = NoDoc /\ supplier = NoDoc /\ shipment = NoDoc /\ alert = NoDoc
    /\ lastReq = NoReq /\ resp = NoResp /\ inflight = NoFlight /\ calc = NoCalc
    /\ userAccount = NoDoc /\ client = NoClient

NextProduct ==
    \/ \E b \in ProductCreateBodies : PostProduct(b)
    \/ \E b \in ProductUpdateBodies : PutProduct(b)

SpecProduct == InitProduct /\ [][NextProduct]_vars

(***************************************************************************)
(* Shipment: carbon footprint (a virtual, computed on every read)          *)
(***************************************************************************)
TransportModes == {"diesel", "electric", "hybrid", "rail", "ship", "air"}
VehicleTypes == {"truck", "van", "car", "train", "ship", "plane"}

\* emissionFactors, in hundredths of kg CO2 per km per ton; 0 where the
\* table has no entry (the lookup yields undefined).
emissionFactors(mode, vehicle) ==
    CASE mode = "diesel" /\ vehicle = "truck" -> 15
      [] mode = "diesel" /\ vehicle = "van" -> 12
      [] mode = "diesel" /\ vehicle = "car" -> 8
      [] mode = "electric" /\ vehicle = "truck" -> 5
      [] mode = "electric" /\ vehicle = "van" -> 4
      [] mode = "electric" /\ vehicle = "car" -> 2
      [] mode = "hybrid" /\ vehicle = "truck" -> 10
      [] mode = "hybrid" /\ vehicle = "van" -> 8
      [] mode = "hybrid" /\ vehicle = "car" -> 5
      [] mode = "rail" -> 3
      [] mode = "ship" -> 2
      [] mode = "air" -> 50
      [] OTHER -> 0

\* JavaScript truthiness of a number that may be undefined.
Falsy(n) == n = Absent \/ n = 0

\* Number(x) || 0
NumberOrZero(n) == IF n = Absent THEN 0 ELSE n

\* Math.floor in place of Math.round.
TruncateHundredths(thousandths) == thousandths \div 1000

\* Math.round(v * 100) / 100 for v = thousandths / 100000, in hundredths.
RoundHundredths(thousandths) == (thousandths + 500) \div 1000

\* !this.distanceKm || !this.transportMode || !this.quantity
distanceOrModeMissing(s) == Falsy(s.distanceKm) \/ s.transportMode = ""
missingRequiredFields(s) ==
    Falsy(s.distanceKm) \/ s.transportMode = "" \/ Falsy(s.quantity)

\* Packaging weight taken off the load instead of added to it.
netWeight(quantity, packagingWeight) == quantity - packagingWeight

\* const totalWeight = quantity + packagingWeight
totalWeight(quantity, packagingWeight) == quantity + packagingWeight

\* calculateCarbonFootprint, result in hundredths of a kg.
calculateCarbonFootprint(s) ==
    IF missingRequiredFields(s)
    THEN 0
    ELSE LET distanceKm == NumberOrZero(s.distanceKm)
             quantity == NumberOrZero(s.quantity)
             packagingWeight == NumberOrZero(s.packagingWeight)
             transportMode == s.transportMode
             vehicleType == IF s.vehicleType = "" THEN "truck" ELSE s.vehicleType
             emissionFactor ==
                 IF transportMode \in {"rail", "ship", "air"}
                 THEN emissionFactors(transportMode, "")
                 ELSE IF emissionFactors(transportMode, vehicleType) # 0
                      THEN emissionFactors(transportMode, vehicleType)
                      ELSE emissionFactors("diesel", "truck")
         IN RoundHundredths(distanceKm * emissionFactor
                              * totalWeight(quantity, packagingWeight))

\* shipmentSchema.virtual('carbonKg')
carbonKg(s) == calculateCarbonFootprint(s)

\* The vehicleType POST /api/shipments gives a shipment whose body has none.
defaultVehicleType(transportMode) ==
    CASE transportMode = "rail" -> "train"
      [] transportMode = "ship" -> "ship"
      [] transportMode = "air" -> "plane"
      [] OTHER -> "truck"

\* new Shipment({...}) as POST /api/shipments builds it; carbonKg of the
\* body is not read.
NewShipment(b) ==
    [exists |-> TRUE,
     quantity |-> b.quantity,
     distanceKm |-> b.distanceKm,
     transportMode |-> b.transportMode,
     vehicleType |-> Get(b, "vehicleType", defaultVehicleType(b.transportMode)),
     packagingWeight |-> Get(b, "packagingWeight", 0)]

\* What the PUT handler removes from the body before the update.
shipmentUpdateData(b) == Without(b, {"supplierId", "productId", "carbonKg"})

\* Shipment.findByIdAndUpdate(id, updateData): strict mode drops keys that
\* are not schema paths (carbonKg is a virtual, not a path).
shipmentFindByIdAndUpdate(doc, u) ==
    [exists |-> TRUE,
     quantity |-> Get(u, "quantity", doc.quantity),
     distanceKm |-> Get(u, "distanceKm", doc.distanceKm),
     transportMode |-> Get(u, "transportMode", doc.transportMode),
     vehicleType |-> Get(u, "vehicleType", doc.vehicleType),
     packagingWeight |-> Get(u, "packagingWeight", doc.packagingWeight)]

\* The document findByIdAndUpdate hands back: with { new: true } the updated one.
returnOriginal(before, after) == before
returnedDocument(before, after) == after

DistanceInputs == {0, 50, 100}
QuantityInputs == {250, 500}
PackagingWeightInputs == {0, 50}
ModeInputs == {"diesel", "electric", "rail"}
VehicleInputs == {"van", "train"}
CarbonSupplied == {4242}

ShipmentOptionalBodies ==
    {a @@ b @@ c : a \in Opt("vehicleType", VehicleInputs),
                   b \in Opt("packagingWeight", PackagingWeightInputs),
                   c \in Opt("carbonKg", CarbonSupplied)}

ShipmentCreateBodies ==
    {a @@ b @@ c @@ d : a \in {"quantity" :> v : v \in QuantityInputs},
                        b \in {"distanceKm" :> v : v \in DistanceInputs},
                        c \in {"transportMode" :> v : v \in ModeInputs},
                        d \in ShipmentOptionalBodies}

ShipmentUpdateBodies ==
    {a @@ b @@ c @@ d : a \in Opt("quantity", QuantityInputs),
                        b \in Opt("distanceKm", DistanceInputs),
                        c \in Opt("transportMode", ModeInputs),
                        d \in ShipmentOptionalBodies}

\* POST /api/shipments
PostShipment(b) ==
    /\ shipment = NoDoc
    /\ LET doc == NewShipment(b)
       IN /\ shipment' = doc
          /\ resp' = [op |-> "POST /api/shipments", code |-> 201, derived |-> carbonKg(doc)]
    /\ lastReq' = [op |-> "POST /api/shipments", derived |-> Get(b, "carbonKg", Absent)]
    /\ UNCHANGED <<product, supplier, alert, inflight, calc, userAccount, client>>

\* PUT /api/shipments/:id
PutShipment(b) ==
    /\ shipment # NoDoc
    /\ LET doc == shipmentFindByIdAndUpdate(shipment, shipmentUpdateData(b))
       IN /\ shipment' = doc
          /\ resp' = [op |-> "PUT /api/shipments/:id", code |-> 200,
                      derived |-> carbonKg(returnedDocument(shipment, doc))]
    /\ lastReq' = [op |-> "PUT /api/shipments/:id", derived |-> Get(b, "carbonKg", Absent)]
    /\ UNCHANGED <<product, supplier, alert, inflight, calc, userAccount, client>>

\* GET /api/shipments/:id
GetShipment ==
    /\ shipment # NoDoc
    /\ resp' = [op |-> "GET /api/shipments/:id", code |-> 200, derived |-> carbonKg(shipment)]
    /\ lastReq' = [op |-> "GET /api/shipments/:id", derived |-> Absent]
    /\ UNCHANGED <<product, supplier, shipment, alert, inflight, calc, userAccount, client>>

InitShipment == InitProduct

NextShipment ==
    \/ \E b \in ShipmentCreateBodies : PostShipment(b)
    \/ \E b \in ShipmentUpdateBodies : PutShipment(b)
    \/ GetShipment

SpecShipment == InitShipment /\ [][NextShipment]_vars

(***************************************************************************)
(* Supplier: ESG score                                                     *)
(* auditDocs is read as the handlers and calculateESGScore use it: a list  *)
(* of documents carrying a verified flag.                                  *)
(***************************************************************************)
CertificationLevels == {"None", "Basic", "FairTrade", "Organic", "B Corp", "Carbon Neutral"}

certScores(level) ==
    CASE level = "None" -> 0
      [] level = "Basic" -> 10
      [] level = "FairTrade" -> 25
      [] level = "Organic" -> 30
      [] level = "B Corp" -> 40
      [] level = "Carbon Neutral" -> 35
      [] OTHER -> 0

\* Every document counted, verified or not.
DocumentCount(docs) == Len(docs)

\* this.auditDocs.filter(doc => doc.verified).length
VerifiedCount(docs) == Cardinality({i \in DOMAIN docs : docs[i].verified})

calculateESGScore(s) ==
    LET m == s.sustainabilityMetrics
        carbon == IF m.carbonFootprint < 10 THEN 20 ELSE IF m.carbonFootprint < 25 THEN 15
                  ELSE IF m.carbonFootprint < 50 THEN 10 ELSE 0
        waste == IF m.wasteReduction > 50 THEN 20 ELSE IF m.wasteReduction > 25 THEN 15
                 ELSE IF m.wasteReduction > 10 THEN 10 ELSE 0
        renewable == IF m.renewableEnergy > 80 THEN 20 ELSE IF m.renewableEnergy > 50 THEN 15
                     ELSE IF m.renewableEnergy > 20 THEN 10 ELSE 0
        score == certScores(s.certificationLevel) + carbon + waste + renewable
                 + Min(VerifiedCount(s.auditDocs) * 5, 20)
    IN Min(score, 100)

\* Mongoose fills the schema defaults of a nested object's missing fields.
SupplierMetrics(o) ==
    [carbonFootprint |-> Get(o, "carbonFootprint", 0),
     wasteReduction |-> Get(o, "wasteReduction", 0),
     renewableEnergy |-> Get(o, "renewableEnergy", 0)]

\* new Supplier(supplierData) as POST /api/suppliers builds it.
NewSupplier(b) ==
    [exists |-> TRUE,
     certificationLevel |-> b.certificationLevel,
     sustainabilityMetrics |-> SupplierMetrics(Get(b, "sustainabilityMetrics", EmptyBody)),
     auditDocs |-> <<>>,
     ESGscore |-> Get(b, "ESGscore", Get(b, "esgScore", 0))]

\* What the PUT handler removes from the body before the update.
supplierUpdateData(b) == Without(b, {"email", "status", "ESGscore"})

\* Supplier.findByIdAndUpdate(id, updateData): a $set of every key of the update.
supplierFindByIdAndUpdate(doc, u) ==
    [exists |-> TRUE,
     certificationLevel |-> Get(u, "certificationLevel", doc.certificationLevel),
     sustainabilityMetrics |->
         IF Has(u, "sustainabilityMetrics")
         THEN SupplierMetrics(u.sustainabilityMetrics)
         ELSE doc.sustainabilityMetrics,
     auditDocs |-> Get(u, "auditDocs", doc.auditDocs),
     ESGscore |-> Get(u, "ESGscore", doc.ESGscore)]

\* supplier.ESGscore = supplier.calculateESGScore()
withoutRecalculation(doc) == doc
withESGScore(doc) == [doc EXCEPT !.ESGscore = calculateESGScore(doc)]

\* supplier.save() of a loaded document: Mongoose sends the modified paths
\* only. Pushed array elements are appended to the stored array; ESGscore is
\* written when the assignment changed the loaded value, else it is not sent.
supplierSaveAlways(stored, loaded, edited, pushed) ==
    [stored EXCEPT !.auditDocs = @ \o pushed, !.ESGscore = edited.ESGscore]
supplierSave(stored, loaded, edited, pushed) ==
    IF edited.ESGscore # loaded.ESGscore
    THEN [stored EXCEPT !.auditDocs = @ \o pushed, !.ESGscore = edited.ESGscore]
    ELSE [stored EXCEPT !.auditDocs = @ \o pushed]

\* newDocs of the upload handler: verified is left to its default, false.
newDocs(n) == [i \in 1..n |-> [verified |-> FALSE]]

MaxFiles == 1
MaxAuditDocs == 2
CertificationLevelInputs == {"None", "Organic"}
SupplierFootprintInputs == {60}
WasteReductionInputs == {60}
RenewableEnergyInputs == {85}
AuditDocsInputs == {<<>>, <<[verified |-> TRUE]>>}
ESGSupplied == {77}

SupplierMetricsBodies ==
    {a @@ b @@ c : a \in Opt("carbonFootprint", SupplierFootprintInputs),
                   b \in Opt("wasteReduction", WasteReductionInputs),
                   c \in Opt("renewableEnergy", RenewableEnergyInputs)}

SupplierCreateBodies ==
    {a @@ b @@ c : a \in {"certificationLevel" :> v : v \in CertificationLevelInputs},
                   b \in Opt("sustainabilityMetrics", SupplierMetricsBodies),
                   c \in Opt("ESGscore", ESGSupplied)}

SupplierUpdateBodies ==
    {a @@ b @@ c @@ d : a \in Opt("certificationLevel", CertificationLevelInputs),
                        b \in Opt("sustainabilityMetrics", SupplierMetricsBodies),
                        c \in Opt("auditDocs", AuditDocsInputs),
                        d \in Opt("ESGscore", ESGSupplied)}

\* new User({ ..., role: 'supplier', supplierId: supplier._id, ... })
NewSupplierUser(supplierId) ==
    [exists |-> TRUE, role |-> "supplier", supplierId |-> supplierId]

\* POST /api/suppliers
PostSupplier(b) ==
    /\ supplier = NoDoc
    /\ LET doc == withESGScore(NewSupplier(b))
       IN /\ supplier' = doc
          /\ resp' = [op |-> "POST /api/suppliers", code |-> 201, derived |-> doc.ESGscore]
    /\ userAccount' = NewSupplierUser("s1")
    /\ lastReq' = [op |-> "POST /api/suppliers", derived |-> Get(b, "ESGscore", Absent)]
    /\ UNCHANGED <<product, shipment, alert, inflight, calc, client>>

\* PUT /api/suppliers/:id
PutSupplier(b) ==
    /\ supplier # NoDoc
    /\ LET loaded == supplierFindByIdAndUpdate(supplier, supplierUpdateData(b))
           edited == withESGScore(loaded)
       IN /\ supplier' = supplierSave(loaded, loaded, edited, <<>>)
          /\ resp' = [op |-> "PUT /api/suppliers/:id", code |-> 200, derived |-> edited.ESGscore]
    /\ lastReq' = [op |-> "PUT /api/suppliers/:id", derived |-> Get(b, "ESGscore", Absent)]
    /\ UNCHANGED <<product, shipment, alert, inflight, calc, userAccount, client>>

\* POST /api/suppliers/:id/documents
PostSupplierDocuments(n) ==
    /\ supplier # NoDoc
    /\ Len(supplier.auditDocs) + n <= MaxAuditDocs
    /\ LET loaded == supplier
           edited == withESGScore([loaded EXCEPT !.auditDocs = @ \o newDocs(n)])
       IN /\ supplier' = supplierSave(supplier, loaded, edited, newDocs(n))
          /\ resp' = [op |-> "POST /api/suppliers/:id/documents", code |-> 200,
                      derived |-> edited.ESGscore]
    /\ lastReq' = [op |-> "POST /api/suppliers/:id/documents", derived |-> Absent]
    /\ UNCHANGED <<product, shipment, alert, inflight, calc, userAccount, client>>

InitSupplier == InitProduct

NextSupplier ==
    \/ \E b \in SupplierCreateBodies : PostSupplier(b)
    \/ \E b \in SupplierUpdateBodies : PutSupplier(b)
    \/ \E n \in 1..MaxFiles : PostSupplierDocuments(n)

SpecSupplier == InitSupplier /\ [][NextSupplier]_vars

(***************************************************************************)
(* One PUT /api/suppliers/:id and one POST /api/suppliers/:id/documents    *)
(* running concurrently: each await is a step, the steps of the two        *)
(* handlers interleave freely. A new pair starts when both have answered.  *)
(***************************************************************************)
Idle == [pc |-> "idle", loaded |-> NoDoc, files |-> 0]

InitConcurrent ==
    /\ product = NoDoc /\ supplier = NoDoc /\ shipment = NoDoc /\ alert = NoDoc
    /\ lastReq = NoReq /\ resp = NoResp /\ calc = NoCalc
    /\ userAccount = NoDoc /\ client = NoClient
    /\ inflight = [put |-> Idle, upload |-> Idle]

\* POST /api/suppliers (no other request in flight)
ConcurrentPostSupplier(b) ==
    /\ supplier = NoDoc
    /\ supplier' = withESGScore(NewSupplier(b))
    /\ userAccount' = NewSupplierUser("s1")
    /\ UNCHANGED <<product, shipment, alert, lastReq, resp, inflight, calc, client>>

\* PUT: await Supplier.findByIdAndUpdate(...)
PutFindByIdAndUpdate(b) ==
    /\ supplier # NoDoc
    /\ inflight.put.pc = "idle"
    /\ LET loaded == supplierFindByIdAndUpdate(supplier, supplierUpdateData(b))
       IN /\ supplier' = loaded
          /\ inflight' = [inflight EXCEPT !.put = [pc |-> "loaded", loaded |-> loaded, files |-> 0]]
    /\ UNCHANGED <<product, shipment, alert, lastReq, resp, calc, userAccount, client>>

\* PUT: supplier.ESGscore = ...; await supplier.save(); res.json
PutSave ==
    /\ inflight.put.pc = "loaded"
    /\ LET loaded == inflight.put.loaded
           edited == withESGScore(loaded)
       IN /\ supplier' = supplierSave(supplier, loaded, edited, <<>>)
          /\ resp' = [op |-> "PUT /api/suppliers/:id", code |-> 200, derived |-> edited.ESGscore]
    /\ inflight' = [inflight EXCEPT !.put = [pc |-> "done", loaded |-> NoDoc, files |-> 0]]
    /\ UNCHANGED <<product, shipment, alert, lastReq, calc, userAccount, client>>

\* upload: await Supplier.findById(id)
UploadFindById(n) ==
    /\ supplier # NoDoc
    /\ inflight.upload.pc = "idle"
    /\ Len(supplier.auditDocs) + n <= MaxAuditDocs
    /\ inflight' = [inflight EXCEPT !.upload = [pc |-> "loaded", loaded |-> supplier, files |-> n]]
    /\ UNCHANGED <<product, supplier, shipment, alert, lastReq, resp, calc, userAccount, client>>

\* upload: push, supplier.ESGscore = ...; await supplier.save(); res.json
UploadSave ==
    /\ inflight.upload.pc = "loaded"
    /\ LET loaded == inflight.upload.loaded
           pushed == newDocs(inflight.upload.files)
           edited == withESGScore([loaded EXCEPT !.auditDocs = @ \o pushed])
       IN /\ supplier' = supplierSave(supplier, loaded, edited, pushed)
          /\ resp' = [op |-> "POST /api/suppliers/:id/documents", code |-> 200,
                      derived |-> edited.ESGscore]
    /\ inflight' = [inflight EXCEPT !.upload = [pc |-> "done", loaded |-> NoDoc, files |-> 0]]
    /\ UNCHANGED <<product, shipment, alert, lastReq, calc, userAccount, client>>

\* Both requests have been answered; the next pair may be sent.
NextPair ==
    /\ inflight.put.pc = "done" /\ inflight.upload.pc = "done"
    /\ Len(supplier.auditDocs) < MaxAuditDocs
    /\ inflight' = [put |-> Idle, upload |-> Idle]
    /\ UNCHANGED <<product, supplier, shipment, alert, lastReq, resp, calc, userAccount, client>>

NextConcurrent ==
    \/ \E b \in SupplierCreateBodies : ConcurrentPostSupplier(b)
    \/ \E b \in SupplierUpdateBodies : PutFindByIdAndUpdate(b)
    \/ PutSave
    \/ \E n \in 1..MaxFiles : UploadFindById(n)
    \/ UploadSave
    \/ NextPair

SpecConcurrent == InitConcurrent /\ [][NextConcurrent]_vars

\* C7: executed one at a time, create, update and document upload leave the
\* stored ESGscore equal to calculateESGScore of the stored supplier fields.
C7_ESGScoreCurrent ==
    supplier # NoDoc => supplier.ESGscore = calculateESGScore(supplier)

C7_Witness ==
    /\ supplier # NoDoc
    /\ lastReq.op = "POST /api/suppliers/:id/documents"
    /\ supplier.certificationLevel = "Organic"
    /\ VerifiedCount(supplier.auditDocs) = 1
    /\ Len(supplier.auditDocs) = 2
    /\ supplier.ESGscore = 35

\* C8: when one update and one document upload of the same supplier run
\* concurrently, then once both have answered the stored ESGscore equals
\* calculateESGScore of the stored fields, in every interleaving.
C8_ConcurrentESGScoreCurrent ==
    (inflight.put.pc = "done" /\ inflight.upload.pc = "done")
        => supplier.ESGscore = calculateESGScore(supplier)

\* The upload read the supplier before the update wrote it and saved after
\* the update had stored a different score.
C8_Witness ==
    /\ inflight.put.pc = "done" /\ inflight.upload.pc = "done"
    /\ resp.op = "POST /api/suppliers/:id/documents"
    /\ resp.derived # supplier.ESGscore
    /\ Len(supplier.auditDocs) > 0

(***************************************************************************)
(* WasteAlert: risk level, recommendations and the status field            *)
(***************************************************************************)
RiskLevels == {"low", "medium", "high", "critical"}
AlertStatuses == {"active", "acknowledged", "resolved", "dismissed"}

\* The thresholds taken as exclusive.
calculateRiskLevelExclusive(a) ==
    LET adjustedRisk100 == a.predictedWastePercentage * a.confidence
    IN IF adjustedRisk100 > 3000 THEN "critical"
       ELSE IF adjustedRisk100 > 2000 THEN "high"
       ELSE IF adjustedRisk100 > 1000 THEN "medium"
       ELSE "low"

\* adjustedRisk = wastePercentage * (confidence / 100), compared times 100.
calculateRiskLevel(a) ==
    LET adjustedRisk100 == a.predictedWastePercentage * a.confidence
    IN IF adjustedRisk100 >= 3000 THEN "critical"
       ELSE IF adjustedRisk100 >= 2000 THEN "high"
       ELSE IF adjustedRisk100 >= 1000 THEN "medium"
       ELSE "low"

generateRecommendations(a) ==
    (IF a.predictedWastePercentage > 20
     THEN <<[action |-> "Discount Pricing", impact |-> "high",
             estimatedSavings |-> a.predictedWasteQty * 5]>>
     ELSE <<>>)
    \o (IF a.currentStock > a.predictedWasteQty * 2
        THEN <<[action |-> "Transfer to Other Stores", impact |-> "medium",
                estimatedSavings |-> a.predictedWasteQty * 3]>>
        ELSE <<>>)
    \o (IF a.predictedWastePercentage > 15
        THEN <<[action |-> "Promotional Campaign", impact |-> "medium",
                estimatedSavings |-> a.predictedWasteQty * 4]>>
        ELSE <<>>)

\* The hook appending to the list it finds.
wasteAlertPreSaveAppending(doc, modified) ==
    LET d1 == IF modified \cap {"predictedWastePercentage", "confidence"} # {}
              THEN [doc EXCEPT !.riskLevel = calculateRiskLevel(doc)]
              ELSE doc
    IN IF modified \cap {"predictedWastePercentage", "currentStock"} # {}
       THEN [d1 EXCEPT !.recommendations = @ \o generateRecommendations(d1)]
       ELSE d1

\* The hook reopening an alert whose risk level it recomputes.
wasteAlertPreSaveReopening(doc, modified) ==
    LET d1 == IF modified \cap {"predictedWastePercentage", "confidence"} # {}
              THEN [doc EXCEPT !.riskLevel = calculateRiskLevel(doc), !.status = "active"]
              ELSE doc
    IN IF modified \cap {"predictedWastePercentage", "currentStock"} # {}
       THEN [d1 EXCEPT !.recommendations = generateRecommendations(d1)]
       ELSE d1

\* wasteAlertSchema.pre('save')
wasteAlertPreSave(doc, modified) ==
    LET d1 == IF modified \cap {"predictedWastePercentage", "confidence"} # {}
              THEN [doc EXCEPT !.riskLevel = calculateRiskLevel(doc)]
              ELSE doc
    IN IF modified \cap {"predictedWastePercentage", "currentStock"} # {}
       THEN [d1 EXCEPT !.recommendations = generateRecommendations(d1)]
       ELSE d1

\* Schema validation of the paths the model carries: riskLevel is required
\* and an enum, the numbers have their ranges.
wasteAlertValid(doc) ==
    /\ doc.riskLevel \in RiskLevels
    /\ doc.predictedWasteQty >= 0
    /\ doc.currentStock >= 0
    /\ doc.predictedWastePercentage \in 0..100
    /\ doc.confidence \in 0..100
    /\ doc.status \in AlertStatuses

\* document.save(): Mongoose validates first (its own pre('save') hook is
\* registered ahead of the schema's), then runs the schema's pre('save')
\* hooks, then writes. The result is the stored document, or NoDoc when
\* validation rejects the document and nothing is written.
wasteAlertSave(doc, modified) ==
    IF wasteAlertValid(doc) THEN wasteAlertPreSave(doc, modified) ELSE NoDoc

\* new WasteAlert({...}) as POST /api/alerts builds it: riskLevel is not
\* passed and has no default.
NewWasteAlert(b) ==
    [exists |-> TRUE,
     predictedWasteQty |-> b.predictedWasteQty,
     currentStock |-> b.currentStock,
     predictedWastePercentage |-> b.predictedWastePercentage,
     confidence |-> Get(b, "confidence", 75),
     riskLevel |-> "",
     recommendations |-> Get(b, "recommendations", <<>>),
     status |-> "active",
     acknowledgedBy |-> FALSE,
     resolvedBy |-> FALSE,
     resolutionNotes |-> "",
     actualWasteQty |-> Absent,
     accuracy |-> Absent]

\* Math.round(Math.max(0, 100 - |actual - predicted| / predicted * 100) * 100) / 100,
\* in hundredths of a percent.
Abs(n) == IF n < 0 THEN -n ELSE n
accuracyOf(actual, predicted) ==
    LET num == 10000 * predicted - 10000 * Abs(actual - predicted)
    IN IF num <= 0 THEN 0 ELSE (2 * num + predicted) \div (2 * predicted)

WastePercentageInputs == {10, 25, 60}
ConfidenceInputs == {50, 80}
StockInputs == {10, 50}
WasteQtyInputs == {20}
RecommendationInputs == {<<[action |-> "Do nothing", impact |-> "low", estimatedSavings |-> 0]>>}
NotesInputs == {"", "checked"}
ActualWasteInputs == {Absent, 0, 15}

AlertCreateBodies ==
    {a @@ b @@ c @@ d @@ e :
        a \in {"predictedWastePercentage" :> v : v \in WastePercentageInputs},
        b \in {"currentStock" :> v : v \in StockInputs},
        c \in {"predictedWasteQty" :> v : v \in WasteQtyInputs},
        d \in Opt("confidence", ConfidenceInputs),
        e \in Opt("recommendations", RecommendationInputs)}

\* Alerts already in the collection: schema-valid, status at its default,
\* derived fields as the model's methods give them.
StoredAlerts ==
    {wasteAlertPreSave(NewWasteAlert(b), {"predictedWastePercentage", "confidence", "currentStock"})
        : b \in AlertCreateBodies}

\* POST /api/alerts
PostAlert(b) ==
    /\ alert = NoDoc
    /\ LET saved == wasteAlertSave(NewWasteAlert(b), DOMAIN NewWasteAlert(b))
       IN IF saved # NoDoc
          THEN /\ alert' = saved
               /\ resp' = [op |-> "POST /api/alerts", code |-> 201, derived |-> Absent]
          ELSE /\ alert' = alert
               /\ resp' = [op |-> "POST /api/alerts", code |-> 500, derived |-> Absent]
    /\ lastReq' = [op |-> "POST /api/alerts", derived |-> Absent]
    /\ UNCHANGED <<product, supplier, shipment, inflight, calc, userAccount, client>>

\* The tail shared by the three status handlers: await alert.save(); res.json
AlertSaveAndAnswer(op, edited, modified) ==
    /\ LET saved == wasteAlertSave(edited, modified)
       IN IF saved # NoDoc
          THEN /\ alert' = saved
               /\ resp' = [op |-> op, code |-> 200, derived |-> Absent]
          ELSE /\ alert' = alert
               /\ resp' = [op |-> op, code |-> 500, derived |-> Absent]
    /\ lastReq' = [op |-> op, derived |-> Absent]
    /\ UNCHANGED <<product, supplier, shipment, inflight, calc, userAccount, client>>

\* PUT /api/alerts/:id/acknowledge
AcknowledgeAlert(notes) ==
    /\ alert # NoDoc
    /\ AlertSaveAndAnswer("PUT /api/alerts/:id/acknowledge",
          [alert EXCEPT !.status = "acknowledged",
                        !.acknowledgedBy = TRUE,
                        !.resolutionNotes = IF notes # "" THEN notes ELSE @],
          {"status", "acknowledgedBy", "acknowledgedAt", "resolutionNotes"})

\* PUT /api/alerts/:id/resolve
ResolveAlert(actualWasteQty, notes) ==
    /\ alert # NoDoc
    /\ AlertSaveAndAnswer("PUT /api/alerts/:id/resolve",
          [alert EXCEPT !.status = "resolved",
                        !.resolvedBy = TRUE,
                        !.actualWasteQty = IF actualWasteQty # Absent THEN actualWasteQty ELSE @,
                        !.resolutionNotes = IF notes # "" THEN notes ELSE @,
                        !.accuracy = IF actualWasteQty # Absent /\ alert.predictedWasteQty > 0
                                     THEN accuracyOf(actualWasteQty, alert.predictedWasteQty)
                                     ELSE @],
          {"status", "resolvedBy", "resolvedAt", "actualWasteQty", "resolutionNotes", "accuracy"})

\* PUT /api/alerts/:id/dismiss
DismissAlert(notes) ==
    /\ alert # NoDoc
    /\ AlertSaveAndAnswer("PUT /api/alerts/:id/dismiss",
          [alert EXCEPT !.status = "dismissed",
                        !.resolvedBy = TRUE,
                        !.resolutionNotes = IF notes # "" THEN notes ELSE @],
          {"status", "resolvedBy", "resolvedAt", "resolutionNotes"})

InitAlert ==
    /\ product = NoDoc /\ supplier = NoDoc /\ shipment = NoDoc
    /\ alert \in {NoDoc} \cup StoredAlerts
    /\ lastReq = NoReq /\ resp = NoResp /\ inflight = NoFlight /\ calc = NoCalc
    /\ userAccount = NoDoc /\ client = NoClient

NextAlert ==
    \/ \E b \in AlertCreateBodies : PostAlert(b)
    \/ \E n \in NotesInputs : AcknowledgeAlert(n)
    \/ \E q \in ActualWasteInputs, n \in NotesInputs : ResolveAlert(q, n)
    \/ \E n \in NotesInputs : DismissAlert(n)

SpecAlert == InitAlert /\ [][NextAlert]_vars

\* C3: the status of an alert only moves active -> acknowledged,
\* acknowledged -> resolved or active -> dismissed.
LifecycleSteps ==
    {<<"active", "acknowledged">>, <<"acknowledged", "resolved">>, <<"active", "dismissed">>}

C3_StatusLifecycle ==
    [][(alert # NoDoc /\ alert' # NoDoc /\ alert'.status # alert.status)
          => <<alert.status, alert'.status>> \in LifecycleSteps]_vars

\* C4: a POST /api/alerts with valid input is answered 201 and leaves the
\* alert stored with riskLevel = calculateRiskLevel and recommendations =
\* generateRecommendations of its fields.
C4_AlertCreatedWithDerivedFields ==
    lastReq.op = "POST /api/alerts"
        => /\ resp.code = 201
           /\ alert # NoDoc
           /\ alert.riskLevel = calculateRiskLevel(alert)
           /\ alert.recommendations = generateRecommendations(alert)

(***************************************************************************)
(* Aggregate scorer: waste score                                           *)
(* A score is the fraction num/den; nan marks JavaScript's NaN.            *)
(***************************************************************************)

IsActive(a) == a.status = "active"
IsResolved(a) == a.status = "resolved"
IsCriticalActive(a) == a.status = "active" /\ a.riskLevel = "critical"

\* criticalAlerts.length / activeAlerts.length is 0/0 = NaN when no alert
\* is active; NaN survives the subtraction, Math.min and Math.max.
calculateWasteScore(alerts) ==
    IF Len(alerts) = 0 THEN [nan |-> FALSE, num |-> 100, den |-> 1]
    ELSE LET total == Len(alerts)
             active == Cardinality({i \in DOMAIN alerts : IsActive(alerts[i])})
             critical == Cardinality({i \in DOMAIN alerts : IsCriticalActive(alerts[i])})
             resolved == Cardinality({i \in DOMAIN alerts : IsResolved(alerts[i])})
         IN IF active = 0
            THEN [nan |-> TRUE, num |-> 0, den |-> 1]
            ELSE LET den == total * active
                     num == 100 * resolved * active - 30 * critical * total
                 IN [nan |-> FALSE, num |-> Max(0, Min(100 * den, num)), den |-> den]

MaxAlerts == 3
AlertKinds == {[status |-> st, riskLevel |-> r] : st \in AlertStatuses, r \in {"low", "critical"}}
AlertPopulations == UNION {[1..n -> AlertKinds] : n \in 0..MaxAlerts}

InitScorer == InitProduct

InvokeWasteScore(alerts) ==
    /\ calc = NoCalc
    /\ calc' = [fn |-> "calculateWasteScore", input |-> alerts,
                result |-> calculateWasteScore(alerts)]
    /\ UNCHANGED <<product, supplier, shipment, alert, lastReq, resp, inflight, userAccount, client>>

NextScorer == \E alerts \in AlertPopulations : InvokeWasteScore(alerts)

SpecScorer == InitScorer /\ [][NextScorer]_vars

\* C5: for every non-empty population of alerts, also one without an active
\* alert, calculateWasteScore returns a number in [0, 100], and where an
\* alert is active it is resolved/total*100 - criticalActive/active*30 clamped.
C5_WasteScoreInRange ==
    (calc.fn = "calculateWasteScore" /\ Len(calc.input) > 0)
        => /\ ~calc.result.nan
           /\ 0 <= calc.result.num
           /\ calc.result.num <= 100 * calc.result.den

(***************************************************************************)
(* The carbon footprint calculator invoked directly                        *)
(***************************************************************************)
CalculatorDistances == {Absent} \cup DistanceInputs
CalculatorQuantities == {Absent, 0} \cup QuantityInputs
CalculatorPackagingWeights == {Absent, 500} \cup PackagingWeightInputs
CalculatorModes == TransportModes \cup {"", "bicycle"}
CalculatorVehicles == VehicleTypes \cup {"", "scooter"}

CarbonInputs ==
    [distanceKm : CalculatorDistances, quantity : CalculatorQuantities,
     packagingWeight : CalculatorPackagingWeights,
     transportMode : CalculatorModes, vehicleType : CalculatorVehicles]

InitCarbon == InitProduct

InvokeCarbonFootprint(s) ==
    /\ calc = NoCalc
    /\ calc' = [fn |-> "calculateCarbonFootprint", input |-> s,
                result |-> calculateCarbonFootprint(s)]
    /\ UNCHANGED <<product, supplier, shipment, alert, lastReq, resp, inflight, userAccount, client>>

NextCarbon == \E s \in CarbonInputs : InvokeCarbonFootprint(s)

SpecCarbon == InitCarbon /\ [][NextCarbon]_vars

\* C9: carbonKg >= 0, and carbonKg = 0 whenever distanceKm, quantity or
\* transportMode is absent, zero or empty.
C9_CarbonNonNegativeAndZeroOnMissing ==
    calc.fn = "calculateCarbonFootprint"
        => /\ calc.result >= 0
           /\ (\/ calc.input.distanceKm \in {Absent, 0}
               \/ calc.input.quantity \in {Absent, 0}
               \/ calc.input.transportMode = "") => calc.result = 0

C9_Witness ==
    /\ calc.fn = "calculateCarbonFootprint"
    /\ calc.input.quantity = Absent
    /\ calc.input.distanceKm = 100
    /\ calc.input.packagingWeight = 50
    /\ calc.input.transportMode = "diesel"
    /\ calc.result = 0

\* The value the claims give carbonKg, in hundredths: r is x/1000 rounded
\* to the nearest integer, halves up.
IsRounded(r, x) == 1000 * r - 500 <= x /\ x < 1000 * r + 500

TableVehicles == {"truck", "van", "car"}
RoadFactor(mode, vehicle) ==
    CASE mode = "diesel" -> (CASE vehicle = "truck" -> 15 [] vehicle = "van" -> 12 [] vehicle = "car" -> 8)
      [] mode = "electric" -> (CASE vehicle = "truck" -> 5 [] vehicle = "van" -> 4 [] vehicle = "car" -> 2)
      [] mode = "hybrid" -> (CASE vehicle = "truck" -> 10 [] vehicle = "van" -> 8 [] vehicle = "car" -> 5)

\* The factor as C10 states it: an absent vehicleType falls back to 0.15.
StatedFactor(mode, vehicle) ==
    CASE mode = "rail" -> 3
      [] mode = "ship" -> 2
      [] mode = "air" -> 50
      [] mode \in {"diesel", "electric", "hybrid"} /\ vehicle \in TableVehicles -> RoadFactor(mode, vehicle)
      [] OTHER -> 15

\* The factor with an absent vehicleType read as truck of the same mode.
TruckDefaultFactor(mode, vehicle) ==
    CASE mode = "rail" -> 3
      [] mode = "ship" -> 2
      [] mode = "air" -> 50
      [] mode \in {"diesel", "electric", "hybrid"} /\ vehicle \in TableVehicles -> RoadFactor(mode, vehicle)
      [] mode \in {"diesel", "electric", "hybrid"} /\ vehicle = "" -> RoadFactor(mode, "truck")
      [] OTHER -> 15

C10_Applies ==
    /\ calc.fn = "calculateCarbonFootprint"
    /\ calc.input.distanceKm \notin {Absent, 0}
    /\ calc.input.quantity \notin {Absent, 0}
    /\ calc.input.transportMode # ""

C10_Weight == calc.input.quantity + NumberOrZero(calc.input.packagingWeight)

\* C10 as stated: the result is distanceKm * factor * (quantity +
\* packagingWeight) / 1000 rounded to 2 decimals, the factor being 0.15
\* whenever vehicleType is absent or not in the mode's table.
C10_AsStated ==
    C10_Applies =>
        IsRounded(calc.result,
                  calc.input.distanceKm
                    * StatedFactor(calc.input.transportMode, calc.input.vehicleType)
                    * C10_Weight)

\* C10 amended: as stated, except that an absent vehicleType is read as
\* truck of the requested mode (diesel 0.15, electric 0.05, hybrid 0.10).
C10_CarbonFormula ==
    C10_Applies =>
        IsRounded(calc.result,
                  calc.input.distanceKm
                    * TruckDefaultFactor(calc.input.transportMode, calc.input.vehicleType)
                    * C10_Weight)

\* diesel truck, 100 km, 500 units, no packaging: 7.5 kg.
C10_Witness ==
    /\ calc.fn = "calculateCarbonFootprint"
    /\ calc.input.transportMode = "diesel" /\ calc.input.vehicleType = "truck"
    /\ calc.input.distanceKm = 100 /\ calc.input.quantity = 500
    /\ calc.input.packagingWeight = 0
    /\ calc.result = 750

(***************************************************************************)
(* Claims about the stored and reported derived fields                     *)
(***************************************************************************)
GreenScoreFields(p) ==
    <<p.packagingType, p.sustainabilityMetrics.carbonFootprint,
      p.sustainabilityMetrics.waterFootprint, p.certifications, p.baseSpoilageRate>>

\* C1: whenever a create or an update changes packagingType, the footprint
\* metrics, certifications or baseSpoilageRate, the stored greenScore equals
\* calculateGreenScore of the stored fields afterwards.
C1_GreenScoreRecomputed ==
    [][(/\ product' # NoDoc
        /\ \/ product = NoDoc
           \/ GreenScoreFields(product') # GreenScoreFields(product))
          => product'.sustainabilityMetrics.greenScore = calculateGreenScore(product')]_vars

ProductRequests == {"POST /api/products", "PUT /api/products/:id"}
SupplierRequests == {"POST /api/suppliers", "PUT /api/suppliers/:id"}
ShipmentRequests == {"POST /api/shipments", "PUT /api/shipments/:id"}

\* C2: after a create or update whose body carries a value for a derived
\* field (greenScore, ESGscore, carbonKg), the value stored and reported is
\* the calculator's, not the supplied one.
C2_DerivedFieldsOwnedByCalculators ==
    lastReq.derived # Absent =>
        /\ lastReq.op \in ProductRequests =>
              /\ product.sustainabilityMetrics.greenScore = calculateGreenScore(product)
              /\ resp.derived = calculateGreenScore(product)
        /\ lastReq.op \in SupplierRequests =>
              /\ supplier.ESGscore = calculateESGScore(supplier)
              /\ resp.derived = calculateESGScore(supplier)
        /\ lastReq.op \in ShipmentRequests =>
              resp.derived = calculateCarbonFootprint(shipment)

\* C6: the carbonKg reported for a shipment is calculateCarbonFootprint of
\* the shipment as stored, and the stored document has no carbonKg of its own.
C6_CarbonKgFollowsInputs ==
    (shipment # NoDoc /\ resp.op # "none")
        => /\ resp.derived = calculateCarbonFootprint(shipment)
           /\ ~Has(shipment, "carbonKg")

\* An update that changed the inputs and carried a carbonKg of its own.
C6_Witness ==
    /\ resp.op = "PUT /api/shipments/:id"
    /\ lastReq.derived = 4242
    /\ shipment.transportMode = "electric" /\ shipment.vehicleType = "van"
    /\ shipment.distanceKm = 100 /\ shipment.quantity = 500
    /\ shipment.packagingWeight = 50
    /\ resp.derived = 220

(***************************************************************************)
(* Monotonicity of the carbon calculator                                   *)
(***************************************************************************)
InTable(s) ==
    \/ s.transportMode \in {"rail", "ship", "air"}
    \/ s.transportMode \in {"diesel", "electric", "hybrid"} /\ s.vehicleType \in TableVehicles

Numeric(s) == s.distanceKm # Absent /\ s.quantity # Absent

LoadOf(s) == s.quantity + NumberOrZero(s.packagingWeight)

\* Inputs the invoked one is compared with: same mode and vehicle, in the table.
Comparable ==
    {t \in CarbonInputs :
        /\ Numeric(t)
        /\ t.transportMode = calc.input.transportMode
        /\ t.vehicleType = calc.input.vehicleType}

C11_Applies ==
    /\ calc.fn = "calculateCarbonFootprint"
    /\ InTable(calc.input)
    /\ Numeric(calc.input)

MonotoneInDistance ==
    \A t \in Comparable :
        (/\ t.quantity = calc.input.quantity
         /\ t.packagingWeight = calc.input.packagingWeight
         /\ t.distanceKm >= calc.input.distanceKm)
            => calculateCarbonFootprint(t) >= calc.result

MonotoneInQuantity ==
    \A t \in Comparable :
        (/\ t.distanceKm = calc.input.distanceKm
         /\ t.packagingWeight = calc.input.packagingWeight
         /\ t.quantity >= calc.input.quantity)
            => calculateCarbonFootprint(t) >= calc.result

MonotoneInPackagingWeight ==
    \A t \in Comparable :
        (/\ t.distanceKm = calc.input.distanceKm
         /\ t.quantity = calc.input.quantity
         /\ NumberOrZero(t.packagingWeight) >= NumberOrZero(calc.input.packagingWeight))
            => calculateCarbonFootprint(t) >= calc.result

\* C11 as stated: for every combination in the emission-factor table the
\* rounded carbonKg is non-decreasing in distanceKm, and non-decreasing in
\* the sum quantity + packagingWeight, the other inputs fixed.
C11_AsStated ==
    C11_Applies =>
        /\ MonotoneInDistance
        /\ \A t \in Comparable :
              (/\ t.distanceKm = calc.input.distanceKm
               /\ LoadOf(t) >= LoadOf(calc.input))
                  => calculateCarbonFootprint(t) >= calc.result

\* C11 amended: the rounded carbonKg is non-decreasing in distanceKm, in
\* quantity and in packagingWeight taken one at a time, and in the sum
\* quantity + packagingWeight among shipments whose quantity is not zero.
C11_CarbonMonotone ==
    C11_Applies =>
        /\ MonotoneInDistance
        /\ MonotoneInQuantity
        /\ MonotoneInPackagingWeight
        /\ \A t \in Comparable :
              (/\ t.distanceKm = calc.input.distanceKm
               /\ t.quantity # 0
               /\ LoadOf(t) >= LoadOf(calc.input))
                  => calculateCarbonFootprint(t) >= calc.result

\* diesel truck, 100 km, 250 units with 50 of packaging (4.5 kg): 500 units
\* with no packaging is a heavier load and emits more (7.5 kg).
C11_Witness ==
    /\ C11_Applies
    /\ calc.input.transportMode = "diesel" /\ calc.input.vehicleType = "truck"
    /\ calc.input.distanceKm = 100 /\ calc.input.quantity = 250
    /\ calc.input.packagingWeight = 50
    /\ calc.result = 450
    /\ \E t \in Comparable :
          /\ t.distanceKm = 100 /\ t.quantity = 500 /\ t.packagingWeight = 0
          /\ calculateCarbonFootprint(t) = 750

(***************************************************************************)
(* Score calculators on their own: calculateGreenScore, calculateESGScore  *)
(* Metrics are whole numbers; every band edge of the code is an integer,   *)
(* so each band is entered from both sides.                                *)
(***************************************************************************)
MaxCertifications == 1000
MaxVerifiedDocs == 50

Certifications(n) == [i \in 1..n |-> "Organic"]
CertificationLists == {Certifications(n) : n \in {0, 1, 2, MaxCertifications}}

ScorerPackagings == PackagingTypes \cup {"glass"}
ScorerCarbonFootprints == {0, 1, 4, 5, 9, 10, 20, 21, 1000000}
ScorerWaterFootprints == {9, 10, 49, 50, 100, 101}
ScorerSpoilageRates == {1, 2, 4, 5, 15, 16}

GreenScoreEntities ==
    {[exists |-> TRUE, packagingType |-> pt, baseSpoilageRate |-> sr,
      certifications |-> c,
      sustainabilityMetrics |-> [carbonFootprint |-> cf, waterFootprint |-> wf, greenScore |-> 50]] :
        pt \in ScorerPackagings, sr \in ScorerSpoilageRates, c \in CertificationLists,
        cf \in ScorerCarbonFootprints, wf \in ScorerWaterFootprints}

\* v verified documents followed by u unverified ones.
AuditDocs(v, u) == [i \in 1..(v + u) |-> [verified |-> i <= v]]
AuditDocLists == {AuditDocs(v, u) : v \in {0, 1, 3, 4, 5, MaxVerifiedDocs}, u \in {0, 2}}

ScorerCertificationLevels == CertificationLevels \cup {"Gold"}
ScorerSupplierFootprints == {9, 10, 24, 25, 49, 50}
ScorerWasteReductions == {10, 11, 25, 26, 50, 51}
ScorerRenewableEnergies == {20, 21, 50, 51, 80, 81}

ESGScoreEntities ==
    {[exists |-> TRUE, certificationLevel |-> cl, auditDocs |-> docs, ESGscore |-> 0,
      sustainabilityMetrics |-> [carbonFootprint |-> cf, wasteReduction |-> wr, renewableEnergy |-> re]] :
        cl \in ScorerCertificationLevels, docs \in AuditDocLists,
        cf \in ScorerSupplierFootprints, wr \in ScorerWasteReductions,
        re \in ScorerRenewableEnergies}

InitScores == InitProduct

InvokeGreenScore ==
    /\ calc = NoCalc
    /\ \E p \in GreenScoreEntities :
          calc' = [fn |-> "calculateGreenScore", input |-> p,
                   result |-> calculateGreenScore(p)]
    /\ UNCHANGED <<product, supplier, shipment, alert, lastReq, resp, inflight, userAccount, client>>

InvokeESGScore ==
    /\ calc = NoCalc
    /\ \E s \in ESGScoreEntities :
          calc' = [fn |-> "calculateESGScore", input |-> s,
                   result |-> calculateESGScore(s)]
    /\ UNCHANGED <<product, supplier, shipment, alert, lastReq, resp, inflight, userAccount, client>>

NextScores == InvokeGreenScore \/ InvokeESGScore

SpecScores == InitScores /\ [][NextScores]_vars

\* C12: calculateGreenScore and calculateESGScore return a value in
\* [0, 100] for any inputs, extreme ones included.
C12_ScoresInRange ==
    calc.fn \in {"calculateGreenScore", "calculateESGScore"}
        => 0 <= calc.result /\ calc.result <= 100

\* A product with the maximal number of certifications on top of every bonus.
C12_Witness ==
    /\ calc.fn = "calculateGreenScore"
    /\ Len(calc.input.certifications) = MaxCertifications
    /\ calc.input.packagingType = "minimal"
    /\ calc.input.sustainabilityMetrics.carbonFootprint = 0
    /\ calc.result = 100

\* The adjustments as the claims state them, one band per factor.
StatedPackagingAdjustment(t) ==
    CASE t = "minimal" -> 25 [] t = "compostable" -> 20 [] t = "biodegradable" -> 15
      [] t = "recyclable" -> 10 [] t = "plastic" -> -10 [] OTHER -> 0

StatedCarbonBand(cf) ==
    CASE cf < 1 -> 20
      [] cf >= 1 /\ cf < 5 -> 15
      [] cf >= 5 /\ cf < 10 -> 10
      [] cf > 20 -> -15
      [] OTHER -> 0

StatedWaterBand(wf) ==
    CASE wf < 10 -> 15
      [] wf >= 10 /\ wf < 50 -> 10
      [] wf > 100 -> -10
      [] OTHER -> 0

StatedSpoilageBand(sr) ==
    CASE sr < 2 -> 10
      [] sr >= 2 /\ sr < 5 -> 5
      [] sr > 15 -> -10
      [] OTHER -> 0

StatedGreenSum(p) ==
    50 + StatedPackagingAdjustment(p.packagingType)
       + StatedCarbonBand(p.sustainabilityMetrics.carbonFootprint)
       + StatedWaterBand(p.sustainabilityMetrics.waterFootprint)
       + 5 * Len(p.certifications)
       + StatedSpoilageBand(p.baseSpoilageRate)

\* C13: calculateGreenScore equals 50 plus the packaging adjustment, the
\* carbonFootprint band, the waterFootprint band, 5 per certification and
\* the spoilage band, clamped into [0, 100].
C13_GreenScoreFormula ==
    calc.fn = "calculateGreenScore" =>
        calc.result =
            (IF StatedGreenSum(calc.input) < 0 THEN 0
             ELSE IF StatedGreenSum(calc.input) > 100 THEN 100
             ELSE StatedGreenSum(calc.input))

\* Every penalty at once: 50 - 10 - 15 - 10 - 10 = 5.
C13_Witness ==
    /\ calc.fn = "calculateGreenScore"
    /\ calc.input.packagingType = "plastic"
    /\ calc.input.sustainabilityMetrics.carbonFootprint = 21
    /\ calc.input.sustainabilityMetrics.waterFootprint = 101
    /\ calc.input.baseSpoilageRate = 16
    /\ calc.input.certifications = <<>>
    /\ calc.result = 5

StatedCertificationBonus(level) ==
    CASE level = "None" -> 0 [] level = "Basic" -> 10 [] level = "FairTrade" -> 25
      [] level = "Organic" -> 30 [] level = "B Corp" -> 40 [] level = "Carbon Neutral" -> 35
      [] OTHER -> 0

StatedSupplierCarbonBand(cf) ==
    CASE cf < 10 -> 20
      [] cf >= 10 /\ cf < 25 -> 15
      [] cf >= 25 /\ cf < 50 -> 10
      [] OTHER -> 0

StatedPercentBand(x, high, mid, low) ==
    CASE x > high -> 20
      [] x <= high /\ x > mid -> 15
      [] x <= mid /\ x > low -> 10
      [] OTHER -> 0

StatedDocumentBonus(docs) ==
    LET verified == Cardinality({i \in DOMAIN docs : docs[i].verified})
    IN IF 5 * verified < 20 THEN 5 * verified ELSE 20

StatedESGSum(s) ==
    StatedCertificationBonus(s.certificationLevel)
      + StatedSupplierCarbonBand(s.sustainabilityMetrics.carbonFootprint)
      + StatedPercentBand(s.sustainabilityMetrics.wasteReduction, 50, 25, 10)
      + StatedPercentBand(s.sustainabilityMetrics.renewableEnergy, 80, 50, 20)
      + StatedDocumentBonus(s.auditDocs)

\* C14: calculateESGScore equals the certification bonus plus the
\* carbonFootprint, wasteReduction and renewableEnergy bands plus 5 per
\* verified document up to 20, capped at 100.
C14_ESGScoreFormula ==
    calc.fn = "calculateESGScore" =>
        calc.result =
            (IF StatedESGSum(calc.input) > 100 THEN 100 ELSE StatedESGSum(calc.input))

\* No other bonus, the maximal number of verified documents and two
\* unverified ones: the document bonus is 20.
C14_Witness ==
    /\ calc.fn = "calculateESGScore"
    /\ calc.input.certificationLevel = "None"
    /\ calc.input.sustainabilityMetrics.carbonFootprint = 50
    /\ calc.input.sustainabilityMetrics.wasteReduction = 10
    /\ calc.input.sustainabilityMetrics.renewableEnergy = 20
    /\ Len(calc.input.auditDocs) = MaxVerifiedDocs + 2
    /\ calc.result = 20

(***************************************************************************)
(* Alert calculators on their own: calculateRiskLevel,                     *)
(* generateRecommendations and the pre('save') hook that applies them      *)
(***************************************************************************)
Percentages == 0..100

RiskInputs ==
    {[predictedWastePercentage |-> p, confidence |-> c] : p \in Percentages, c \in Percentages}

\* Fields on both sides of each recommendation's condition.
HookWastePercentages == {15, 16, 20, 21}
HookStocks == {39, 40, 41}
HookWasteQtys == {20}
HookConfidences == {80}
HookPreviousLists ==
    {<<>>,
     <<[action |-> "Do nothing", impact |-> "low", estimatedSavings |-> 0]>>,
     <<[action |-> "Discount Pricing", impact |-> "high", estimatedSavings |-> 100],
       [action |-> "Transfer to Other Stores", impact |-> "medium", estimatedSavings |-> 60],
       [action |-> "Promotional Campaign", impact |-> "medium", estimatedSavings |-> 80]>>}
HookModifiedPaths ==
    {{"predictedWastePercentage"}, {"currentStock"}, {"confidence"}, {"status"},
     {"predictedWastePercentage", "confidence", "currentStock", "predictedWasteQty", "recommendations", "status"}}

HookAlerts ==
    {[exists |-> TRUE, predictedWasteQty |-> q, currentStock |-> st,
      predictedWastePercentage |-> p, confidence |-> c, riskLevel |-> "",
      recommendations |-> prev, status |-> "active", acknowledgedBy |-> FALSE,
      resolvedBy |-> FALSE, resolutionNotes |-> "", actualWasteQty |-> Absent,
      accuracy |-> Absent] :
        q \in HookWasteQtys, st \in HookStocks, p \in HookWastePercentages,
        c \in HookConfidences, prev \in HookPreviousLists}

InitAlertCalc == InitProduct

InvokeRiskLevel ==
    /\ calc = NoCalc
    /\ \E a \in RiskInputs :
          calc' = [fn |-> "calculateRiskLevel", input |-> a, result |-> calculateRiskLevel(a)]
    /\ UNCHANGED <<product, supplier, shipment, alert, lastReq, resp, inflight, userAccount, client>>

InvokePreSave ==
    /\ calc = NoCalc
    /\ \E doc \in HookAlerts, modified \in HookModifiedPaths :
          calc' = [fn |-> "pre('save')", input |-> doc, modified |-> modified,
                   result |-> wasteAlertPreSave(doc, modified)]
    /\ UNCHANGED <<product, supplier, shipment, alert, lastReq, resp, inflight, userAccount, client>>

NextAlertCalc == InvokeRiskLevel \/ InvokePreSave

SpecAlertCalc == InitAlertCalc /\ [][NextAlertCalc]_vars

\* C15: with adjustedRisk = predictedWastePercentage * confidence / 100,
\* the level is critical iff adjustedRisk >= 30, high iff 20 <= adjustedRisk
\* < 30, medium iff 10 <= adjustedRisk < 20 and low iff adjustedRisk < 10,
\* for all percentages and confidences in 0..100.
C15_RiskLevelSteps ==
    calc.fn = "calculateRiskLevel" =>
        LET risk100 == calc.input.predictedWastePercentage * calc.input.confidence
        IN /\ calc.result = "critical" <=> risk100 >= 3000
           /\ calc.result = "high" <=> (2000 <= risk100 /\ risk100 < 3000)
           /\ calc.result = "medium" <=> (1000 <= risk100 /\ risk100 < 2000)
           /\ calc.result = "low" <=> risk100 < 1000

\* adjustedRisk exactly 30 (60 percent at confidence 50) is critical.
C15_Witness ==
    /\ calc.fn = "calculateRiskLevel"
    /\ calc.input.predictedWastePercentage = 60
    /\ calc.input.confidence = 50
    /\ calc.result = "critical"

Recomputes ==
    /\ calc.fn = "pre('save')"
    /\ calc.modified \cap {"predictedWastePercentage", "currentStock"} # {}

StatedActions(a) ==
    (IF a.predictedWastePercentage > 20 THEN <<"Discount Pricing">> ELSE <<>>)
    \o (IF a.currentStock > 2 * a.predictedWasteQty THEN <<"Transfer to Other Stores">> ELSE <<>>)
    \o (IF a.predictedWastePercentage > 15 THEN <<"Promotional Campaign">> ELSE <<>>)

ActionsOf(list) == [i \in DOMAIN list |-> list[i].action]

\* C16: a recompute replaces the recommendations with exactly the entries
\* whose condition holds on the current fields, in the order Discount
\* Pricing, Transfer to Other Stores, Promotional Campaign; 0 to 3 entries,
\* whatever the previous list was, and a second recompute changes nothing.
C16_RecommendationsReplaced ==
    Recomputes =>
        /\ ActionsOf(calc.result.recommendations) = StatedActions(calc.input)
        /\ Len(calc.result.recommendations) <= 3
        /\ wasteAlertPreSave(calc.result, calc.modified).recommendations
              = calc.result.recommendations

\* All three conditions hold and the alert came with a list of its own.
C16_Witness ==
    /\ Recomputes
    /\ calc.input.predictedWastePercentage = 21
    /\ calc.input.currentStock = 41
    /\ Len(calc.input.recommendations) = 1
    /\ Len(calc.result.recommendations) = 3
    /\ calc.result.recommendations[1].action = "Discount Pricing"

(***************************************************************************)
(* GET /api/analytics/sustainability-score                                 *)
(* A score is the fraction num/den, nan marking JavaScript's NaN; a        *)
(* rounded score is a whole number of hundredths, or NaN.                  *)
(***************************************************************************)
Number(n) == [nan |-> FALSE, num |-> n, den |-> 1]

\* values.reduce((sum, v) => sum + v, 0)
RECURSIVE Sum(_)
Sum(values) == IF values = <<>> THEN 0 ELSE Head(values) + Sum(Tail(values))

\* Thresholds on the average carbonKg (kept in hundredths of a kg).
calculateCarbonScore(shipments) ==
    IF Len(shipments) = 0 THEN Number(0)
    ELSE LET totalCarbon == Sum([i \in DOMAIN shipments |-> carbonKg(shipments[i])])
             n == Len(shipments)
         IN IF totalCarbon < 500 * n THEN Number(100)
            ELSE IF totalCarbon < 1000 * n THEN Number(80)
            ELSE IF totalCarbon < 2000 * n THEN Number(60)
            ELSE IF totalCarbon < 5000 * n THEN Number(40)
            ELSE Number(20)

\* An empty population scored as a full one.
calculateSupplierScoreFullOnEmpty(suppliers) ==
    IF Len(suppliers) = 0 THEN Number(100)
    ELSE LET total == Sum([i \in DOMAIN suppliers |-> suppliers[i].ESGscore])
             n == Len(suppliers)
         IN IF total > 100 * n THEN Number(100) ELSE [nan |-> FALSE, num |-> total, den |-> n]

calculateSupplierScore(suppliers) ==
    IF Len(suppliers) = 0 THEN Number(0)
    ELSE LET total == Sum([i \in DOMAIN suppliers |-> suppliers[i].ESGscore])
             n == Len(suppliers)
         IN IF total > 100 * n THEN Number(100) ELSE [nan |-> FALSE, num |-> total, den |-> n]

calculateProductScore(products) ==
    IF Len(products) = 0 THEN Number(0)
    ELSE LET total == Sum([i \in DOMAIN products |-> products[i].sustainabilityMetrics.greenScore])
             n == Len(products)
         IN IF total > 100 * n THEN Number(100) ELSE [nan |-> FALSE, num |-> total, den |-> n]

NaN == [nan |-> TRUE, hundredths |-> 0]

\* Math.round(x * 100) / 100 of a non-negative fraction, in hundredths.
roundScore(x) ==
    IF x.nan THEN NaN
    ELSE [nan |-> FALSE, hundredths |-> (200 * x.num + x.den) \div (2 * x.den)]

\* Math.round((carbon * 0.3 + supplier * 0.25 + product * 0.25 + waste * 0.2) * 100) / 100
weightedScore(c, s, p, w) ==
    IF c.nan \/ s.nan \/ p.nan \/ w.nan THEN NaN
    ELSE LET den == c.den * s.den * p.den * w.den
             num == 30 * c.num * s.den * p.den * w.den
                    + 25 * s.num * c.den * p.den * w.den
                    + 25 * p.num * c.den * s.den * w.den
                    + 20 * w.num * c.den * s.den * p.den
         IN [nan |-> FALSE, hundredths |-> (2 * num + den) \div (2 * den)]

\* Every comparison with NaN is false.
getScoreCategory(score) ==
    IF ~score.nan /\ score.hundredths >= 8000 THEN "Excellent"
    ELSE IF ~score.nan /\ score.hundredths >= 6000 THEN "Good"
    ELSE IF ~score.nan /\ score.hundredths >= 4000 THEN "Fair"
    ELSE "Poor"

Below60(score) == ~score.nan /\ score.hundredths < 6000

HasImpact(level, r) == r.impact = level
IsHigh(r) == HasImpact("high", r)
IsMedium(r) == HasImpact("medium", r)
IsLow(r) == HasImpact("low", r)

\* The list ordered by impact ascending.
sortByImpactAscending(list) ==
    SelectSeq(list, IsLow) \o SelectSeq(list, IsMedium) \o SelectSeq(list, IsHigh)

\* recommendations.sort((a, b) => impactOrder[b.impact] - impactOrder[a.impact]):
\* Array.prototype.sort is stable, so entries of equal impact keep their order.
sortByImpact(list) ==
    SelectSeq(list, IsHigh) \o SelectSeq(list, IsMedium) \o SelectSeq(list, IsLow)

getImprovementRecommendations(scoreBreakdown) ==
    sortByImpact(
        (IF Below60(scoreBreakdown.carbonScore)
         THEN <<[type |-> "carbon", impact |-> "high", potentialImprovement |-> 20]>> ELSE <<>>)
        \o (IF Below60(scoreBreakdown.supplierScore)
            THEN <<[type |-> "supplier", impact |-> "medium", potentialImprovement |-> 15]>> ELSE <<>>)
        \o (IF Below60(scoreBreakdown.productScore)
            THEN <<[type |-> "product", impact |-> "medium", potentialImprovement |-> 15]>> ELSE <<>>)
        \o (IF Below60(scoreBreakdown.wasteScore)
            THEN <<[type |-> "waste", impact |-> "high", potentialImprovement |-> 25]>> ELSE <<>>))

\* The analytics object of the response.
sustainabilityAnalytics(shipments, suppliers, products, alerts) ==
    LET carbonScore == calculateCarbonScore(shipments)
        supplierScore == calculateSupplierScore(suppliers)
        productScore == calculateProductScore(products)
        wasteScore == calculateWasteScore(alerts)
        sustainabilityScore == weightedScore(carbonScore, supplierScore, productScore, wasteScore)
        scoreBreakdown == [carbonScore |-> roundScore(carbonScore),
                           supplierScore |-> roundScore(supplierScore),
                           productScore |-> roundScore(productScore),
                           wasteScore |-> roundScore(wasteScore),
                           overallScore |-> sustainabilityScore]
    IN [score |-> scoreBreakdown,
        category |-> getScoreCategory(sustainabilityScore),
        recommendations |-> getImprovementRecommendations(scoreBreakdown)]

MaxPopulation == 2

Populations(S) == UNION {[1..n -> S] : n \in 0..MaxPopulation}

\* 0.25 kg, 7.5 kg, 15 kg and 50 kg of carbon.
FoundShipments ==
    {[exists |-> TRUE, distanceKm |-> 50, quantity |-> 250, packagingWeight |-> 0,
      transportMode |-> "electric", vehicleType |-> "car"],
     [exists |-> TRUE, distanceKm |-> 100, quantity |-> 500, packagingWeight |-> 0,
      transportMode |-> "diesel", vehicleType |-> "truck"],
     [exists |-> TRUE, distanceKm |-> 100, quantity |-> 500, packagingWeight |-> 500,
      transportMode |-> "diesel", vehicleType |-> "truck"],
     [exists |-> TRUE, distanceKm |-> 100, quantity |-> 500, packagingWeight |-> 500,
      transportMode |-> "air", vehicleType |-> "plane"]}
FoundSuppliers == {[ESGscore |-> e] : e \in {40, 77}}
FoundProducts == {[sustainabilityMetrics |-> [greenScore |-> g]] : g \in {5, 100}}
FoundAlerts ==
    {[status |-> "active", riskLevel |-> "low"], [status |-> "active", riskLevel |-> "critical"],
     [status |-> "resolved", riskLevel |-> "low"]}

InitAnalytics == InitProduct

\* GET /api/analytics/sustainability-score, on the four query results.
GetSustainabilityScore ==
    /\ calc = NoCalc
    /\ \E shipments \in Populations(FoundShipments), suppliers \in Populations(FoundSuppliers),
          products \in Populations(FoundProducts), alerts \in Populations(FoundAlerts) :
          calc' = [fn |-> "GET /api/analytics/sustainability-score",
                   shipments |-> shipments, suppliers |-> suppliers,
                   products |-> products, alerts |-> alerts,
                   result |-> sustainabilityAnalytics(shipments, suppliers, products, alerts)]
    /\ UNCHANGED <<product, supplier, shipment, alert, lastReq, resp, inflight, userAccount, client>>

NextAnalytics == GetSustainabilityScore

SpecAnalytics == InitAnalytics /\ [][NextAnalytics]_vars

Scored == calc.fn = "GET /api/analytics/sustainability-score"

\* C17: with no shipments carbonScore is 0, with no suppliers supplierScore
\* is 0, with no products productScore is 0, with no alerts wasteScore is
\* 100; with all four empty the overall score is 20.
C17_EmptyPopulationPolicy ==
    Scored =>
        /\ calc.shipments = <<>> => calc.result.score.carbonScore = [nan |-> FALSE, hundredths |-> 0]
        /\ calc.suppliers = <<>> => calc.result.score.supplierScore = [nan |-> FALSE, hundredths |-> 0]
        /\ calc.products = <<>> => calc.result.score.productScore = [nan |-> FALSE, hundredths |-> 0]
        /\ calc.alerts = <<>> => calc.result.score.wasteScore = [nan |-> FALSE, hundredths |-> 10000]
        /\ (calc.shipments = <<>> /\ calc.suppliers = <<>> /\ calc.products = <<>> /\ calc.alerts = <<>>)
              => calc.result.score.overallScore = [nan |-> FALSE, hundredths |-> 2000]

C17_Witness ==
    /\ Scored
    /\ calc.shipments = <<>> /\ calc.suppliers = <<>>
    /\ calc.products = <<>> /\ calc.alerts = <<>>
    /\ calc.result.score.overallScore = [nan |-> FALSE, hundredths |-> 2000]
    /\ calc.result.score.wasteScore.hundredths = 10000

\* C18: for every population overallScore equals 0.30 * carbonScore + 0.25 *
\* supplierScore + 0.25 * productScore + 0.20 * wasteScore rounded to 2
\* decimals, and is a number in [0, 100].
C18_OverallScore ==
    Scored =>
        LET c == calculateCarbonScore(calc.shipments)
            s == calculateSupplierScore(calc.suppliers)
            p == calculateProductScore(calc.products)
            w == calculateWasteScore(calc.alerts)
            overall == calc.result.score.overallScore
        IN /\ ~overall.nan
           /\ 0 <= overall.hundredths /\ overall.hundredths <= 10000
           /\ ~(c.nan \/ s.nan \/ p.nan \/ w.nan)
           /\ LET den == c.den * s.den * p.den * w.den
                  sum == 30 * c.num * s.den * p.den * w.den
                         + 25 * s.num * c.den * p.den * w.den
                         + 25 * p.num * c.den * s.den * w.den
                         + 20 * w.num * c.den * s.den * p.den
              IN /\ 2 * den * overall.hundredths <= 2 * sum + den
                 /\ 2 * sum + den < 2 * den * (overall.hundredths + 1)

RecommendationsFor(kind) ==
    {i \in DOMAIN calc.result.recommendations : calc.result.recommendations[i].type = kind}

SubScore(kind) ==
    CASE kind = "carbon" -> calc.result.score.carbonScore
      [] kind = "supplier" -> calc.result.score.supplierScore
      [] kind = "product" -> calc.result.score.productScore
      [] kind = "waste" -> calc.result.score.wasteScore

\* C19: the recommendations hold exactly one entry for each sub-score
\* (carbon, supplier, product, waste) below 60 and none for a sub-score of
\* 60 or more, every high-impact entry before every medium-impact entry.
C19_RecommendationsPerSubScore ==
    Scored =>
        /\ \A kind \in {"carbon", "supplier", "product", "waste"} :
              /\ (~SubScore(kind).nan /\ SubScore(kind).hundredths < 6000)
                    => Cardinality(RecommendationsFor(kind)) = 1
              /\ (~SubScore(kind).nan /\ SubScore(kind).hundredths >= 6000)
                    => RecommendationsFor(kind) = {}
        /\ \A i, j \in DOMAIN calc.result.recommendations :
              (calc.result.recommendations[i].impact = "medium"
                 /\ calc.result.recommendations[j].impact = "high") => j < i

\* All four sub-scores below 60: carbon and waste (high) come first, then
\* supplier and product (medium).
C19_Witness ==
    /\ Scored
    /\ Len(calc.result.recommendations) = 4
    /\ calc.result.recommendations[1].type = "carbon"
    /\ calc.result.recommendations[2].type = "waste"
    /\ calc.result.recommendations[3].type = "supplier"
    /\ calc.result.recommendations[4].type = "product"
    /\ calc.result.score.supplierScore.hundredths = 4000

(***************************************************************************)
(* The calculators as methods: what a call returns and what it leaves of   *)
(* its receiver and of the module-level emissionFactors table. None of the *)
(* five method bodies assigns to this or to a table; console.log is their  *)
(* only effect besides the return value.                                   *)
(***************************************************************************)
MaxCalls == 3

EmissionTable ==
    [mode \in TransportModes |->
        [vehicle \in VehicleTypes \cup {""} |-> emissionFactors(mode, vehicle)]]

invokeCalculateCarbonFootprint(this, table) ==
    [result |-> calculateCarbonFootprint(this), this |-> this, emissionFactors |-> table]

invokeCalculateGreenScore(this, table) ==
    [result |-> calculateGreenScore(this), this |-> this, emissionFactors |-> table]

invokeCalculateESGScore(this, table) ==
    [result |-> calculateESGScore(this), this |-> this, emissionFactors |-> table]

invokeCalculateRiskLevel(this, table) ==
    [result |-> calculateRiskLevel(this), this |-> this, emissionFactors |-> table]

\* The list grown in place on the receiver and returned.
invokeGenerateRecommendationsInPlace(this, table) ==
    [result |-> this.recommendations \o generateRecommendations(this),
     this |-> [this EXCEPT !.recommendations = @ \o generateRecommendations(this)],
     emissionFactors |-> table]

invokeGenerateRecommendations(this, table) ==
    [result |-> generateRecommendations(this), this |-> this, emissionFactors |-> table]

\* The fields each calculator reads.
CarbonFields(s) ==
    <<s.distanceKm, s.transportMode, s.vehicleType, s.quantity, s.packagingWeight>>
ESGFields(s) ==
    <<s.certificationLevel, s.sustainabilityMetrics.carbonFootprint,
      s.sustainabilityMetrics.wasteReduction, s.sustainabilityMetrics.renewableEnergy,
      s.auditDocs>>
RiskFields(a) == <<a.predictedWastePercentage, a.confidence>>
RecommendationFields(a) == <<a.predictedWastePercentage, a.currentStock, a.predictedWasteQty>>

CallerShipments ==
    {s \in FoundShipments : s.transportMode = "diesel"}
CallerProducts ==
    {p \in GreenScoreEntities :
        /\ p.packagingType \in {"plastic", "minimal"} /\ p.baseSpoilageRate = 1
        /\ p.certifications = <<>>
        /\ p.sustainabilityMetrics.carbonFootprint = 0
        /\ p.sustainabilityMetrics.waterFootprint = 9}
CallerSuppliers ==
    {s \in ESGScoreEntities :
        /\ s.certificationLevel \in {"None", "Organic"} /\ s.auditDocs = AuditDocs(1, 0)
        /\ s.sustainabilityMetrics.carbonFootprint = 9
        /\ s.sustainabilityMetrics.wasteReduction = 51
        /\ s.sustainabilityMetrics.renewableEnergy = 81}
\* Two alerts with the same fields and different lists, and a third one.
CallerAlerts ==
    {a \in HookAlerts :
        /\ a.currentStock = 41
        /\ \/ a.predictedWastePercentage = 21 /\ Len(a.recommendations) <= 1
           \/ a.predictedWastePercentage = 15 /\ a.recommendations = <<>>}

Calculators ==
    {"calculateCarbonFootprint", "calculateGreenScore", "calculateESGScore",
     "calculateRiskLevel", "generateRecommendations"}

InitCalls ==
    /\ shipment \in CallerShipments
    /\ product \in CallerProducts
    /\ supplier \in CallerSuppliers
    /\ alert \in CallerAlerts
    /\ calc = [op |-> "none", log |-> <<>>, emissionFactors |-> EmissionTable]
    /\ lastReq = NoReq /\ resp = NoResp /\ inflight = NoFlight
    /\ userAccount = NoDoc /\ client = NoClient

Logged(op, input, effect) ==
    /\ Len(calc.log) < MaxCalls
    /\ calc' = [op |-> op,
                log |-> Append(calc.log, [fn |-> op, input |-> input, result |-> effect.result]),
                emissionFactors |-> effect.emissionFactors]
    /\ UNCHANGED <<lastReq, resp, inflight, userAccount, client>>

CallCarbonFootprint ==
    LET effect == invokeCalculateCarbonFootprint(shipment, calc.emissionFactors)
    IN /\ Logged("calculateCarbonFootprint", CarbonFields(shipment), effect)
       /\ shipment' = effect.this
       /\ UNCHANGED <<product, supplier, alert, userAccount, client>>

CallGreenScore ==
    LET effect == invokeCalculateGreenScore(product, calc.emissionFactors)
    IN /\ Logged("calculateGreenScore", GreenScoreFields(product), effect)
       /\ product' = effect.this
       /\ UNCHANGED <<shipment, supplier, alert, userAccount, client>>

CallESGScore ==
    LET effect == invokeCalculateESGScore(supplier, calc.emissionFactors)
    IN /\ Logged("calculateESGScore", ESGFields(supplier), effect)
       /\ supplier' = effect.this
       /\ UNCHANGED <<shipment, product, alert, userAccount, client>>

CallRiskLevel ==
    LET effect == invokeCalculateRiskLevel(alert, calc.emissionFactors)
    IN /\ Logged("calculateRiskLevel", RiskFields(alert), effect)
       /\ alert' = effect.this
       /\ UNCHANGED <<shipment, product, supplier, userAccount, client>>

CallGenerateRecommendations ==
    LET effect == invokeGenerateRecommendations(alert, calc.emissionFactors)
    IN /\ Logged("generateRecommendations", RecommendationFields(alert), effect)
       /\ alert' = effect.this
       /\ UNCHANGED <<shipment, product, supplier, userAccount, client>>

\* Between two calls the receiver may be another entity, or the same one
\* with fields changed upstream.
OtherShipment ==
    /\ shipment' \in CallerShipments \ {shipment}
    /\ calc' = [calc EXCEPT !.op = "none"]
    /\ UNCHANGED <<product, supplier, alert, lastReq, resp, inflight, userAccount, client>>

OtherProduct ==
    /\ product' \in CallerProducts \ {product}
    /\ calc' = [calc EXCEPT !.op = "none"]
    /\ UNCHANGED <<shipment, supplier, alert, lastReq, resp, inflight, userAccount, client>>

OtherSupplier ==
    /\ supplier' \in CallerSuppliers \ {supplier}
    /\ calc' = [calc EXCEPT !.op = "none"]
    /\ UNCHANGED <<shipment, product, alert, lastReq, resp, inflight, userAccount, client>>

OtherAlert ==
    /\ alert' \in CallerAlerts \ {alert}
    /\ calc' = [calc EXCEPT !.op = "none"]
    /\ UNCHANGED <<shipment, product, supplier, lastReq, resp, inflight, userAccount, client>>

NextCalls ==
    \/ CallCarbonFootprint \/ CallGreenScore \/ CallESGScore
    \/ CallRiskLevel \/ CallGenerateRecommendations
    \/ OtherShipment \/ OtherProduct \/ OtherSupplier \/ OtherAlert

SpecCalls == InitCalls /\ [][NextCalls]_vars

FollowedSupplierId == "s1"
OtherSupplierId == "s2"
SupplierIds == {FollowedSupplierId, OtherSupplierId}

\* req.user after authenticateToken: supplierId "" is an unset supplierId.
Roles == {"admin", "manager", "supplier", "consumer"}
Users ==
    {[role |-> r, supplierId |-> ""] : r \in Roles}
    \cup {[role |-> "supplier", supplierId |-> i] : i \in SupplierIds}

\* req.params of a route declared as /:id
RouteParams(id) == "id" :> id

\* The gate with the parameter read under the name the routes declare.
canAccessSupplierById(user, params) ==
    \/ user.role = "admin"
    \/ user.role = "supplier" /\ user.supplierId = Get(params, "id", "")

\* canAccessSupplier: TRUE when next() is called, FALSE when it answers 403.
\* const { supplierId } = req.params; undefined?.toString() is undefined.
canAccessSupplier(user, params) ==
    \/ user.role = "admin"
    \/ user.role = "supplier" /\ user.supplierId = Get(params, "supplierId", "")

\* Bodies of the gated PUT: the fields a caller may try to set.
AccessUpdateBodies ==
    {a @@ c : a \in Opt("certificationLevel", CertificationLevelInputs),
              c \in Opt("auditDocs", AuditDocsInputs)}

AccessDenied(op) == [op |-> op, code |-> 403, ran |-> FALSE, derived |-> Absent]
Handled(op, doc) == [op |-> op, code |-> 200, ran |-> TRUE, derived |-> doc.ESGscore]
AccessRequest(op, u, id, b) == [op |-> op, user |-> u, id |-> id, derived |-> b]

\* GET /api/suppliers/:id
AccessGetSupplier ==
    \E u \in Users, id \in SupplierIds :
        LET op == "GET /api/suppliers/:id" IN
        /\ lastReq' = AccessRequest(op, u, id, EmptyBody)
        /\ resp' = IF canAccessSupplier(u, RouteParams(id))
                   THEN Handled(op, supplier) ELSE AccessDenied(op)
        /\ UNCHANGED <<product, supplier, shipment, alert, inflight, calc, userAccount, client>>

\* PUT /api/suppliers/:id
AccessPutSupplier ==
    \E u \in Users, id \in SupplierIds, b \in AccessUpdateBodies :
        LET op == "PUT /api/suppliers/:id"
            loaded == supplierFindByIdAndUpdate(supplier, supplierUpdateData(b))
            edited == withESGScore(loaded)
        IN
        /\ lastReq' = AccessRequest(op, u, id, b)
        /\ IF ~canAccessSupplier(u, RouteParams(id))
           THEN resp' = AccessDenied(op) /\ UNCHANGED supplier
           ELSE IF id = FollowedSupplierId
           THEN /\ supplier' = supplierSave(loaded, loaded, edited, <<>>)
                /\ resp' = Handled(op, edited)
           ELSE resp' = Handled(op, supplier) /\ UNCHANGED supplier
        /\ UNCHANGED <<product, shipment, alert, inflight, calc, userAccount, client>>

\* POST /api/suppliers/:id/documents
AccessPostDocuments ==
    \E u \in Users, id \in SupplierIds, n \in 1..MaxFiles :
        LET op == "POST /api/suppliers/:id/documents"
            edited == withESGScore([supplier EXCEPT !.auditDocs = @ \o newDocs(n)])
        IN
        /\ Len(supplier.auditDocs) + n <= MaxAuditDocs
        /\ lastReq' = AccessRequest(op, u, id, EmptyBody)
        /\ IF ~canAccessSupplier(u, RouteParams(id))
           THEN resp' = AccessDenied(op) /\ UNCHANGED supplier
           ELSE IF id = FollowedSupplierId
           THEN /\ supplier' = supplierSave(supplier, supplier, edited, newDocs(n))
                /\ resp' = Handled(op, edited)
           ELSE resp' = Handled(op, supplier) /\ UNCHANGED supplier
        /\ UNCHANGED <<product, shipment, alert, inflight, calc, userAccount, client>>

\* GET /api/suppliers/:id/analytics
AccessGetSupplierAnalytics ==
    \E u \in Users, id \in SupplierIds :
        LET op == "GET /api/suppliers/:id/analytics" IN
        /\ lastReq' = AccessRequest(op, u, id, EmptyBody)
        /\ resp' = IF canAccessSupplier(u, RouteParams(id))
                   THEN Handled(op, supplier) ELSE AccessDenied(op)
        /\ UNCHANGED <<product, supplier, shipment, alert, inflight, calc, userAccount, client>>

InitAccess ==
    /\ supplier \in {withESGScore(NewSupplier(b)) : b \in SupplierCreateBodies}
    /\ product = NoDoc /\ shipment = NoDoc /\ alert = NoDoc
    /\ lastReq = NoReq /\ resp = NoResp /\ inflight = NoFlight /\ calc = NoCalc
    /\ userAccount = NoDoc /\ client = NoClient

NextAccess ==
    \/ AccessGetSupplier
    \/ AccessPutSupplier
    \/ AccessPostDocuments
    \/ AccessGetSupplierAnalytics

SpecAccess == InitAccess /\ [][NextAccess]_vars

GatedSupplierRoutes ==
    {"GET /api/suppliers/:id", "PUT /api/suppliers/:id",
     "POST /api/suppliers/:id/documents", "GET /api/suppliers/:id/analytics"}

OwnsSupplier(u, id) == u.role = "supplier" /\ u.supplierId = id

\* C21: on the four gated supplier routes the handler runs exactly when the
\* caller is an admin or a supplier-role user whose supplierId is the :id of
\* the request; every other caller is answered 403 and the handler does not
\* run.
C21_SupplierGate ==
    lastReq.op \in GatedSupplierRoutes =>
        LET allowed == lastReq.user.role = "admin" \/ OwnsSupplier(lastReq.user, lastReq.id)
        IN IF allowed THEN resp.ran /\ resp.code # 403
                      ELSE ~resp.ran /\ resp.code = 403

\* The verified-document bonus inside ESGscore.
VerifiedBonus(doc) == Min(VerifiedCount(doc.auditDocs) * 5, 20)

\* A request of a supplier-role user that belongs to the followed supplier.
BySupplierItself(r) ==
    /\ r.op \in GatedSupplierRoutes
    /\ OwnsSupplier(r.user, FollowedSupplierId)

LinkedUsers == {u \in Users : u.role = "supplier" => u.supplierId # ""}

OwnedDoc(sid, status) == [exists |-> TRUE, supplierId |-> sid, status |-> status]

\* ?supplierId= of the list and analytics routes
SupplierQueries == Opt("supplierId", SupplierIds)

\* query after "if (supplierId) query.supplierId = supplierId" and the
\* role-based filtering that follows it
roleFilteredQuery(u, q) ==
    IF u.role = "supplier" THEN "supplierId" :> u.supplierId ELSE q

\* Model.find(query) over the followed document
FindOwned(doc, query) ==
    IF doc # NoDoc /\ (Has(query, "supplierId") => doc.supplierId = query.supplierId)
    THEN {doc.supplierId} ELSE {}

\* req.user.role === 'supplier' && req.user.supplierId?.toString() !== supplierId
notOwnSupplier(u, sid) == u.role = "supplier" /\ u.supplierId # sid

OwnResponse(op, code, suppliers, touched) ==
    [op |-> op, code |-> code, suppliers |-> suppliers, touched |-> touched]
OwnRequest(op, u) == [op |-> op, user |-> u]

\* GET /api/shipments
OwnListShipments ==
    \E u \in LinkedUsers, q \in SupplierQueries :
        LET op == "GET /api/shipments" IN
        /\ lastReq' = OwnRequest(op, u)
        /\ resp' = OwnResponse(op, 200, FindOwned(shipment, roleFilteredQuery(u, q)), "")
        /\ UNCHANGED <<product, supplier, shipment, alert, inflight, calc, userAccount, client>>

\* GET /api/shipments/:id
OwnGetShipment ==
    \E u \in LinkedUsers :
        LET op == "GET /api/shipments/:id" IN
        /\ lastReq' = OwnRequest(op, u)
        /\ resp' = IF shipment = NoDoc THEN OwnResponse(op, 404, {}, "")
                   ELSE OwnResponse(op, 200, {shipment.supplierId}, "")
        /\ UNCHANGED <<product, supplier, shipment, alert, inflight, calc, userAccount, client>>

\* POST /api/shipments
OwnPostShipment ==
    \E u \in LinkedUsers, sid \in SupplierIds :
        LET op == "POST /api/shipments" IN
        /\ shipment = NoDoc
        /\ lastReq' = OwnRequest(op, u)
        /\ IF notOwnSupplier(u, sid)
           THEN resp' = OwnResponse(op, 403, {}, "") /\ UNCHANGED shipment
           ELSE /\ shipment' = OwnedDoc(sid, "pending")
                /\ resp' = OwnResponse(op, 201, {sid}, sid)
        /\ UNCHANGED <<product, supplier, alert, inflight, calc, userAccount, client>>

\* PUT /api/shipments/:id
OwnPutShipment ==
    \E u \in LinkedUsers, st \in {"in-transit", "delivered", "cancelled"} :
        LET op == "PUT /api/shipments/:id" IN
        /\ lastReq' = OwnRequest(op, u)
        /\ IF shipment = NoDoc
           THEN resp' = OwnResponse(op, 404, {}, "") /\ UNCHANGED shipment
           ELSE IF notOwnSupplier(u, shipment.supplierId)
           THEN resp' = OwnResponse(op, 403, {}, "") /\ UNCHANGED shipment
           ELSE /\ shipment' = [shipment EXCEPT !.status = st]
                /\ resp' = OwnResponse(op, 200, {shipment.supplierId}, shipment.supplierId)
        /\ UNCHANGED <<product, supplier, alert, inflight, calc, userAccount, client>>

\* GET /api/shipments/analytics/carbon
OwnShipmentAnalytics ==
    \E u \in LinkedUsers, q \in SupplierQueries :
        LET op == "GET /api/shipments/analytics/carbon" IN
        /\ lastReq' = OwnRequest(op, u)
        /\ resp' = OwnResponse(op, 200, FindOwned(shipment, roleFilteredQuery(u, q)), "")
        /\ UNCHANGED <<product, supplier, shipment, alert, inflight, calc, userAccount, client>>

\* GET /api/alerts
OwnListAlerts ==
    \E u \in LinkedUsers, q \in SupplierQueries :
        LET op == "GET /api/alerts" IN
        /\ lastReq' = OwnRequest(op, u)
        /\ resp' = OwnResponse(op, 200, FindOwned(alert, roleFilteredQuery(u, q)), "")
        /\ UNCHANGED <<product, supplier, shipment, alert, inflight, calc, userAccount, client>>

\* GET /api/alerts/:id
OwnGetAlert ==
    \E u \in LinkedUsers :
        LET op == "GET /api/alerts/:id" IN
        /\ lastReq' = OwnRequest(op, u)
        /\ resp' = IF alert = NoDoc THEN OwnResponse(op, 404, {}, "")
                   ELSE OwnResponse(op, 200, {alert.supplierId}, "")
        /\ UNCHANGED <<product, supplier, shipment, alert, inflight, calc, userAccount, client>>

\* POST /api/alerts
OwnPostAlert ==
    \E u \in LinkedUsers, sid \in SupplierIds :
        LET op == "POST /api/alerts" IN
        /\ alert = NoDoc
        /\ lastReq' = OwnRequest(op, u)
        /\ IF notOwnSupplier(u, sid)
           THEN resp' = OwnResponse(op, 403, {}, "") /\ UNCHANGED alert
           ELSE /\ alert' = OwnedDoc(sid, "active")
                /\ resp' = OwnResponse(op, 201, {sid}, sid)
        /\ UNCHANGED <<product, supplier, shipment, inflight, calc, userAccount, client>>

\* PUT /api/alerts/:id/acknowledge
OwnAcknowledgeAlert ==
    \E u \in LinkedUsers :
        LET op == "PUT /api/alerts/:id/acknowledge" IN
        /\ lastReq' = OwnRequest(op, u)
        /\ IF alert = NoDoc
           THEN resp' = OwnResponse(op, 404, {}, "") /\ UNCHANGED alert
           ELSE IF notOwnSupplier(u, alert.supplierId)
           THEN resp' = OwnResponse(op, 403, {}, "") /\ UNCHANGED alert
           ELSE /\ alert' = [alert EXCEPT !.status = "acknowledged"]
                /\ resp' = OwnResponse(op, 200, {alert.supplierId}, alert.supplierId)
        /\ UNCHANGED <<product, supplier, shipment, inflight, calc, userAccount, client>>

\* PUT /api/alerts/:id/resolve
OwnResolveAlert ==
    \E u \in LinkedUsers :
        LET op == "PUT /api/alerts/:id/resolve" IN
        /\ lastReq' = OwnRequest(op, u)
        /\ IF alert = NoDoc
           THEN resp' = OwnResponse(op, 404, {}, "") /\ UNCHANGED alert
           ELSE IF notOwnSupplier(u, alert.supplierId)
           THEN resp' = OwnResponse(op, 403, {}, "") /\ UNCHANGED alert
           ELSE /\ alert' = [alert EXCEPT !.status = "resolved"]
                /\ resp' = OwnResponse(op, 200, {alert.supplierId}, alert.supplierId)
        /\ UNCHANGED <<product, supplier, shipment, inflight, calc, userAccount, client>>

\* PUT /api/alerts/:id/dismiss
OwnDismissAlert ==
    \E u \in LinkedUsers :
        LET op == "PUT /api/alerts/:id/dismiss" IN
        /\ lastReq' = OwnRequest(op, u)
        /\ IF alert = NoDoc
           THEN resp' = OwnResponse(op, 404, {}, "") /\ UNCHANGED alert
           ELSE IF notOwnSupplier(u, alert.supplierId)
           THEN resp' = OwnResponse(op, 403, {}, "") /\ UNCHANGED alert
           ELSE /\ alert' = [alert EXCEPT !.status = "dismissed"]
                /\ resp' = OwnResponse(op, 200, {alert.supplierId}, alert.supplierId)
        /\ UNCHANGED <<product, supplier, shipment, inflight, calc, userAccount, client>>

\* GET /api/alerts/analytics/summary
OwnAlertAnalytics ==
    \E u \in LinkedUsers, q \in SupplierQueries :
        LET op == "GET /api/alerts/analytics/summary" IN
        /\ lastReq' = OwnRequest(op, u)
        /\ resp' = OwnResponse(op, 200, FindOwned(alert, roleFilteredQuery(u, q)), "")
        /\ UNCHANGED <<product, supplier, shipment, alert, inflight, calc, userAccount, client>>

InitOwnData == InitProduct

NextOwnData ==
    \/ OwnListShipments
    \/ OwnGetShipment
    \/ OwnPostShipment
    \/ OwnPutShipment
    \/ OwnShipmentAnalytics
    \/ OwnListAlerts
    \/ OwnGetAlert
    \/ OwnPostAlert
    \/ OwnAcknowledgeAlert
    \/ OwnResolveAlert
    \/ OwnDismissAlert
    \/ OwnAlertAnalytics

SpecOwnData == InitOwnData /\ [][NextOwnData]_vars

\* C22: no response to a supplier-role user carries a shipment or alert of
\* another supplierId (list, get-by-id and analytics routes), and no request
\* of such a user creates or changes another supplier's shipment or alert.
C22_OwnDataOnly ==
    (lastReq # NoReq /\ lastReq.user.role = "supplier") =>
        /\ resp.suppliers \subseteq {lastReq.user.supplierId}
        /\ resp.touched \in {"", lastReq.user.supplierId}

(***************************************************************************)
(* GET /api/routes/optimize. Distances are whole kilometres, weights whole *)
(* kilograms, emission factors hundredths of kg per tonne-km, and a        *)
(* carbonFootprint is held in hundredths of a kilogram.                    *)
(***************************************************************************)
\* emissionFactors of calculateRouteCarbon, in hundredths.
routeEmissionFactors ==
    [diesel |-> [truck |-> 15, van |-> 12, car |-> 8],
     electric |-> [truck |-> 5, van |-> 4, car |-> 2],
     hybrid |-> [truck |-> 10, van |-> 8, car |-> 5]]

routeEmissionFactor(transportMode, vehicleType) ==
    IF transportMode = "rail" THEN 3
    ELSE IF transportMode = "ship" THEN 2
    ELSE IF transportMode = "air" THEN 50
    ELSE IF /\ transportMode \in DOMAIN routeEmissionFactors
            /\ vehicleType \in DOMAIN routeEmissionFactors[transportMode]
         THEN routeEmissionFactors[transportMode][vehicleType]
         ELSE routeEmissionFactors.diesel.truck

\* Math.round(distance * emissionFactor * (weight / 1000) * 100) / 100 with
\* the distance given in tenths of a kilometre.
calculateRouteCarbon(distanceTenths, weight, transportMode, vehicleType) ==
    (distanceTenths * routeEmissionFactor(transportMode, vehicleType) * weight + 5000)
        \div 10000

RouteOption(name, carbon) == [name |-> name, carbonFootprint |-> carbon]

\* Array.prototype.sort with (a, b) => a.carbonFootprint - b.carbonFootprint:
\* a stable sort, equal footprints keep their order.
RECURSIVE insertByCarbon(_, _)
insertByCarbon(sorted, r) ==
    IF sorted = <<>> THEN <<r>>
    ELSE IF sorted[Len(sorted)].carbonFootprint <= r.carbonFootprint
         THEN Append(sorted, r)
         ELSE Append(insertByCarbon(SubSeq(sorted, 1, Len(sorted) - 1), r),
                     sorted[Len(sorted)])

RECURSIVE sortFrom(_, _)
sortFrom(sorted, rest) ==
    IF rest = <<>> THEN sorted
    ELSE sortFrom(insertByCarbon(sorted, Head(rest)), Tail(rest))

\* The options in the order they were pushed.
inPushOrder(routes) == routes

sortByCarbonFootprint(routes) == sortFrom(<<>>, routes)

generateRouteOptions(distance, weight, transportMode, vehicleType) ==
    LET direct == <<RouteOption("Direct Route",
                        calculateRouteCarbon(10 * distance, weight, transportMode, vehicleType))>>
        green == IF transportMode # "electric" /\ transportMode # "rail"
                 THEN <<RouteOption("Green Alternative",
                            calculateRouteCarbon(11 * distance, weight, "electric", "truck"))>>
                 ELSE <<>>
        multi == IF distance > 100
                 THEN <<RouteOption("Multi-modal Route",
                            calculateRouteCarbon(12 * distance, weight, "rail", "train"))>>
                 ELSE <<>>
    IN sortByCarbonFootprint(direct \o green \o multi)

\* Query strings of the request. A distance stands for a pair of valid
\* coordinates that lie so many kilometres apart.
RouteDistances == {0, 50, 100, 101, 500}
RouteWeights == {0, 400, 2000}
RouteModes == TransportModes \cup {"bike"}
RouteVehicles == {"van", "train"}
RouteQueries ==
    {[from |-> "", distance |-> 0], [from |-> "x,y", distance |-> 0]}
    \cup {[from |-> "lat,lng", distance |-> d] @@ w @@ m @@ v :
            d \in RouteDistances, w \in Opt("weight", RouteWeights),
            m \in Opt("transportMode", RouteModes),
            v \in Opt("vehicleType", RouteVehicles)}

\* GET /api/routes/optimize
OptimizeRoute ==
    \E q \in RouteQueries :
        LET op == "GET /api/routes/optimize" IN
        /\ lastReq' = [op |-> op, query |-> q]
        /\ resp' = IF q.from # "lat,lng"
                   THEN [op |-> op, code |-> 400, routes |-> <<>>]
                   ELSE [op |-> op, code |-> 200,
                         routes |-> generateRouteOptions(q.distance,
                                        Get(q, "weight", 1000),
                                        Get(q, "transportMode", "diesel"),
                                        Get(q, "vehicleType", "truck"))]
        /\ UNCHANGED <<product, supplier, shipment, alert, inflight, calc, userAccount, client>>

InitRoutes == InitProduct
NextRoutes == OptimizeRoute
SpecRoutes == InitRoutes /\ [][NextRoutes]_vars

RouteNames(routes) == {routes[i].name : i \in DOMAIN routes}

\* C23: a 200 answer of GET /api/routes/optimize carries at most 3 options
\* in non-decreasing order of carbonFootprint, each at most once; the Direct
\* Route always, the Green Alternative exactly when the requested mode is
\* neither electric nor rail, the Multi-modal Route exactly when the
\* distance exceeds 100 km.
C23_RouteOptions ==
    (resp.op = "GET /api/routes/optimize" /\ resp.code = 200) =>
        LET routes == resp.routes
            mode == Get(lastReq.query, "transportMode", "diesel")
        IN /\ Len(routes) <= 3
           /\ Cardinality(RouteNames(routes)) = Len(routes)
           /\ \A i \in 1..(Len(routes) - 1) :
                 routes[i].carbonFootprint <= routes[i + 1].carbonFootprint
           /\ "Direct Route" \in RouteNames(routes)
           /\ "Green Alternative" \in RouteNames(routes) <=> mode \notin {"electric", "rail"}
           /\ "Multi-modal Route" \in RouteNames(routes) <=> lastReq.query.distance > 100

\* Three options were returned and the sort moved the Direct Route back.
C23_Witness ==
    /\ resp.op = "GET /api/routes/optimize" /\ resp.code = 200
    /\ Len(resp.routes) = 3
    /\ resp.routes[1].name # "Direct Route"
    /\ resp.routes[1].carbonFootprint < resp.routes[3].carbonFootprint

(***************************************************************************)
(* authenticateToken. A token is abstracted to what jwt.verify makes of it *)
(* and to the userId of its payload; the users collection at the time of   *)
(* the lookup is part of the request's environment.                        *)
(***************************************************************************)
UserIds == {"u1", "u2"}
TokenKinds == {"valid", "malformed", "badSignature", "expired", "notYetValid"}
Tokens == {[kind |-> k, userId |-> i] : k \in TokenKinds, i \in UserIds \cup {""}}
NoToken == [kind |-> "none", userId |-> ""]

\* The Authorization header: absent, a scheme alone, or a scheme and a token.
AuthHeaders ==
    {[present |-> FALSE, scheme |-> "", token |-> NoToken]}
    \cup {[present |-> TRUE, scheme |-> "Bearer", token |-> NoToken]}
    \cup {[present |-> TRUE, scheme |-> sch, token |-> t] : sch \in {"Bearer", "Basic"}, t \in Tokens}

\* authHeader && authHeader.split(' ')[1]
headerToken(h) == IF h.present THEN h.token ELSE NoToken

\* jwt.verify(token, secret): the decoded payload or the name of the error.
jwtVerify(token) ==
    CASE token.kind = "valid" -> "decoded"
      [] token.kind \in {"malformed", "badSignature"} -> "JsonWebTokenError"
      [] token.kind = "expired" -> "TokenExpiredError"
      [] token.kind = "notYetValid" -> "NotBeforeError"

\* The users collection: per id no document, an inactive or an active user.
UserStates == {"none", "inactive", "active"}
UserCollections == [UserIds -> UserStates]

\* User.findById(decoded.userId)
userFindById(users, id) ==
    IF id \in DOMAIN users /\ users[id] # "none"
    THEN [exists |-> TRUE, id |-> id, isActive |-> users[id] = "active"]
    ELSE NoDoc

\* A user document is all the check asks for.
userMissing(user) == user = NoDoc

\* !user || !user.isActive
missingOrInactive(user) == user = NoDoc \/ ~user.isActive

AuthAnswer(code, next, user) ==
    [op |-> "authenticateToken", code |-> code, next |-> next, user |-> user]

authenticateToken(h, users, dbFails) ==
    LET token == headerToken(h)
        user == userFindById(users, token.userId)
    IN IF token = NoToken THEN AuthAnswer(401, FALSE, NoDoc)
       ELSE IF jwtVerify(token) \in {"JsonWebTokenError", "TokenExpiredError"}
            THEN AuthAnswer(401, FALSE, NoDoc)
       ELSE IF jwtVerify(token) # "decoded" \/ dbFails THEN AuthAnswer(500, FALSE, NoDoc)
       ELSE IF missingOrInactive(user) THEN AuthAnswer(401, FALSE, NoDoc)
       ELSE AuthAnswer(0, TRUE, user)

\* One request passing through the middleware.
Authenticate ==
    \E h \in AuthHeaders, users \in UserCollections, dbFails \in BOOLEAN :
        /\ lastReq' = [op |-> "authenticateToken", header |-> h, users |-> users,
                       dbFails |-> dbFails]
        /\ resp' = authenticateToken(h, users, dbFails)
        /\ UNCHANGED <<product, supplier, shipment, alert, inflight, calc, userAccount, client>>

InitAuth == InitProduct
NextAuth == Authenticate
SpecAuth == InitAuth /\ [][NextAuth]_vars

\* C24: next is called, with req.user set, only if the header carries a
\* token that verifies and names an existing user with isActive true. A
\* missing, invalid or expired token and an unknown or inactive user are
\* answered 401; every other case is answered 401 or 500; next is never
\* called together with an answer.
C24_AuthenticateToken ==
    resp.op = "authenticateToken" =>
        LET h == lastReq.header
            t == h.token
            verifies == h.present /\ t.kind = "valid"
            known == verifies /\ t.userId \in UserIds /\ lastReq.users[t.userId] = "active"
        IN /\ resp.next => /\ known
                           /\ resp.user = [exists |-> TRUE, id |-> t.userId, isActive |-> TRUE]
                           /\ resp.code = 0
           /\ ~resp.next => resp.code \in {401, 500}
           /\ (~h.present \/ t = NoToken) => resp.code = 401
           /\ (h.present /\ t.kind \in {"malformed", "badSignature", "expired"}) => resp.code = 401
           /\ (verifies /\ ~known /\ ~lastReq.dbFails) => resp.code = 401

\* A verifying token of an inactive user was answered 401, not passed on.
C24_Witness ==
    /\ resp.op = "authenticateToken"
    /\ lastReq.header.token.kind = "valid"
    /\ lastReq.header.token.userId = "u1"
    /\ lastReq.users["u1"] = "inactive"
    /\ ~lastReq.dbFails
    /\ resp.code = 401 /\ ~resp.next

(***************************************************************************)
(* The status lifecycle and the scoring hook of an alert keep apart.       *)
(***************************************************************************)
StatusRoutes ==
    {"PUT /api/alerts/:id/acknowledge", "PUT /api/alerts/:id/resolve",
     "PUT /api/alerts/:id/dismiss"}

\* The fields a status request may write, and the inputs of the scoring hook.
LifecycleFields ==
    {"status", "acknowledgedBy", "resolvedBy", "resolutionNotes", "actualWasteQty", "accuracy"}
ScoringInputs == {"predictedWastePercentage", "confidence", "currentStock"}

CreateRequests == {"r1", "r2"}
CreateIdle == [pc |-> "idle", code |-> 0]
CreateAt(pc) == [pc |-> pc, code |-> 0]
CreateDone(code) == [pc |-> "done", code |-> code]

\* new Supplier(supplierData) of request r; its _id is named after r.
CreatedSupplier(r) ==
    [withESGScore(NewSupplier("certificationLevel" :> "Organic")) EXCEPT !.exists = TRUE]
        @@ [id |-> r]

CreateAnswer(r, code) ==
    /\ lastReq' = [op |-> "POST /api/suppliers", request |-> r]
    /\ resp' = [op |-> "POST /api/suppliers", code |-> code, request |-> r]

\* validationResult(req); await Supplier.findOne({ email })
CreateFindSupplier(r) ==
    /\ inflight[r].pc = "idle"
    /\ \E valid \in BOOLEAN :
        IF ~valid
        THEN /\ inflight' = [inflight EXCEPT ![r] = CreateDone(400)]
             /\ CreateAnswer(r, 400)
        ELSE IF supplier # NoDoc
        THEN /\ inflight' = [inflight EXCEPT ![r] = CreateDone(400)]
             /\ CreateAnswer(r, 400)
        ELSE /\ inflight' = [inflight EXCEPT ![r] = CreateAt("supplierChecked")]
             /\ UNCHANGED <<lastReq, resp>>
    /\ UNCHANGED <<product, supplier, shipment, alert, calc, userAccount, client>>

\* await User.findOne({ email })
CreateFindUser(r) ==
    /\ inflight[r].pc = "supplierChecked"
    /\ IF userAccount # NoDoc
       THEN /\ inflight' = [inflight EXCEPT ![r] = CreateDone(400)]
            /\ CreateAnswer(r, 400)
       ELSE /\ inflight' = [inflight EXCEPT ![r] = CreateAt("userChecked")]
            /\ UNCHANGED <<lastReq, resp>>
    /\ UNCHANGED <<product, supplier, shipment, alert, calc, userAccount, client>>

\* await supplier.save()
CreateSaveSupplier(r) ==
    /\ inflight[r].pc = "userChecked"
    /\ \E rejected \in BOOLEAN :
        IF rejected \/ supplier # NoDoc
        THEN /\ inflight' = [inflight EXCEPT ![r] = CreateDone(500)]
             /\ CreateAnswer(r, 500)
             /\ UNCHANGED supplier
        ELSE /\ supplier' = CreatedSupplier(r)
             /\ inflight' = [inflight EXCEPT ![r] = CreateAt("supplierSaved")]
             /\ UNCHANGED <<lastReq, resp>>
    /\ UNCHANGED <<product, shipment, alert, calc, userAccount, client>>

\* await user.save(); res.status(201)
CreateSaveUser(r) ==
    /\ inflight[r].pc = "supplierSaved"
    /\ \E rejected \in BOOLEAN :
        IF rejected \/ userAccount # NoDoc
        THEN /\ inflight' = [inflight EXCEPT ![r] = CreateDone(500)]
             /\ CreateAnswer(r, 500)
             /\ UNCHANGED userAccount
        ELSE /\ userAccount' = NewSupplierUser(r)
             /\ inflight' = [inflight EXCEPT ![r] = CreateDone(201)]
             /\ CreateAnswer(r, 201)
    /\ UNCHANGED <<product, supplier, shipment, alert, calc, client>>

\* Both requests have been answered: the next two are sent.
CreateNextPair ==
    /\ \A r \in CreateRequests : inflight[r].pc = "done"
    /\ inflight' = [r \in CreateRequests |-> CreateIdle]
    /\ UNCHANGED <<product, supplier, shipment, alert, lastReq, resp, calc, userAccount, client>>

InitCreate ==
    /\ product = NoDoc /\ supplier = NoDoc /\ shipment = NoDoc /\ alert = NoDoc
    /\ lastReq = NoReq /\ resp = NoResp /\ calc = NoCalc
    /\ userAccount = NoDoc /\ client = NoClient
    /\ inflight = [r \in CreateRequests |-> CreateIdle]

NextCreate ==
    \/ \E r \in CreateRequests : CreateFindSupplier(r)
    \/ \E r \in CreateRequests : CreateFindUser(r)
    \/ \E r \in CreateRequests : CreateSaveSupplier(r)
    \/ \E r \in CreateRequests : CreateSaveUser(r)
    \/ CreateNextPair

SpecCreate == InitCreate /\ [][NextCreate]_vars

NoCreateInFlight == \A r \in CreateRequests : inflight[r].pc \in {"idle", "done"}

\* C27: once no POST /api/suppliers is in flight, a Supplier for the email
\* exists exactly when a supplier-role User for the email exists whose
\* supplierId points to it; a failed request leaves no Supplier behind.
C27_AllOrNothing ==
    NoCreateInFlight =>
        (supplier # NoDoc <=>
            /\ userAccount # NoDoc
            /\ userAccount.role = "supplier"
            /\ userAccount.supplierId = supplier.id)

(***************************************************************************)
(* The browser's AuthContext: the user state of AuthProvider, the token in *)
(* localStorage, and the two requests that set them. "" is null. A JWT     *)
(* stays valid on the server after a logout; the token found at mount is   *)
(* valid or not.                                                           *)
(***************************************************************************)
Accounts == {"u1", "u2"}
TokenOf(u) == [account |-> u]
NoStoredToken == [account |-> ""]

AuthClient(u, token) == [page |-> "app", user |-> u, token |-> token]

\* AuthProvider mounts: useState(null), and the effect sends GET /auth/me
\* when localStorage holds a token. The stored token may have expired.
MountedClients ==
    {[client |-> AuthClient("", NoStoredToken), me |-> "none"]}
    \cup {[client |-> AuthClient("", TokenOf(u)), me |-> m] :
            u \in Accounts, m \in {"valid", "expired"}}

\* .then(res => setUser(res.data.user))
MeResolved ==
    /\ inflight.me = "valid"
    /\ client' = [client EXCEPT !.user = inflight.meAccount]
    /\ inflight' = [inflight EXCEPT !.me = "none"]
    /\ resp' = [op |-> "GET /auth/me", code |-> 200]
    /\ UNCHANGED <<product, supplier, shipment, alert, lastReq, calc, userAccount>>

\* .catch(() => setUser(null))
MeRejected ==
    /\ inflight.me = "expired"
    /\ client' = [client EXCEPT !.user = ""]
    /\ inflight' = [inflight EXCEPT !.me = "none"]
    /\ resp' = [op |-> "GET /auth/me", code |-> 401]
    /\ UNCHANGED <<product, supplier, shipment, alert, lastReq, calc, userAccount>>

\* Login.handleSubmit up to its await; the form is linked while user is null.
LoginSubmit ==
    \E u \in Accounts, accepted \in BOOLEAN :
        /\ client.user = ""
        /\ inflight.login = "none"
        /\ inflight' = [inflight EXCEPT !.login = IF accepted THEN "accepted" ELSE "refused",
                                        !.loginAccount = u]
        /\ UNCHANGED <<product, supplier, shipment, alert, lastReq, resp, calc, userAccount, client>>

\* localStorage.setItem('token', token); setUser(user)
LoginResolved ==
    /\ inflight.login = "accepted"
    /\ client' = [client EXCEPT !.token = TokenOf(inflight.loginAccount),
                                !.user = inflight.loginAccount]
    /\ inflight' = [inflight EXCEPT !.login = "none", !.loginAccount = ""]
    /\ lastReq' = [op |-> "login"]
    /\ resp' = [op |-> "POST /auth/login", code |-> 200]
    /\ UNCHANGED <<product, supplier, shipment, alert, calc, userAccount>>

\* catch (err) { setError(...) }
LoginRejected ==
    /\ inflight.login = "refused"
    /\ inflight' = [inflight EXCEPT !.login = "none", !.loginAccount = ""]
    /\ resp' = [op |-> "POST /auth/login", code |-> 401]
    /\ UNCHANGED <<product, supplier, shipment, alert, lastReq, calc, userAccount, client>>

\* Navbar.handleLogout -> logout(); the button is rendered while user is set.
Logout ==
    /\ client.user # ""
    /\ client' = [client EXCEPT !.user = "", !.token = NoStoredToken]
    /\ lastReq' = [op |-> "logout"]
    /\ UNCHANGED <<product, supplier, shipment, alert, resp, inflight, calc, userAccount>>

InitAuthClient ==
    /\ product = NoDoc /\ supplier = NoDoc /\ shipment = NoDoc /\ alert = NoDoc
    /\ lastReq = NoReq /\ resp = NoResp /\ calc = NoCalc /\ userAccount = NoDoc
    /\ \E m \in MountedClients :
        /\ client = m.client
        /\ inflight = [me |-> m.me, meAccount |-> m.client.token.account,
                       login |-> "none", loginAccount |-> ""]

NextAuthClient ==
    \/ MeResolved
    \/ MeRejected
    \/ LoginSubmit
    \/ LoginResolved
    \/ LoginRejected
    \/ Logout

SpecAuthClient == InitAuthClient /\ [][NextAuthClient]_vars

\* C28: whenever user is set, localStorage holds a token, and after a
\* logout user stays null until the next login succeeds, also when the
\* GET /auth/me sent at mount is answered after the logout.
C28_UserImpliesToken ==
    /\ client.user # "" => client.token # NoStoredToken
    /\ lastReq.op = "logout" => client.user = ""

(***************************************************************************)
(* The WasteAlerts page: its filters, alerts, pagination, loading and      *)
(* error state, and the GET /alerts requests it has in flight. A response  *)
(* is named after the filters of its request; requests are numbered in the *)
(* order they are sent and answered in any order.                          *)
(***************************************************************************)
MaxFetches == 3

DefaultFilters == [riskLevel |-> "", status |-> "", page |-> 1]
RiskFilterValues == {"", "high"}
StatusFilterValues == {"", "active"}
PageValues == {1, 2}

\* res.data of GET /alerts for the given filters.
AlertsResponse(filters) ==
    [alerts |-> <<filters.riskLevel, filters.status>>, currentPage |-> filters.page]

NoAlerts == <<>>
NoPagination == 1

\* fetchAlerts(): setLoading(true) and the request sent with the filters.
fetchAlerts(page, filters, via) ==
    /\ client' = [page EXCEPT !.filters = filters, !.loading = TRUE]
    /\ inflight' = [inflight EXCEPT !.pending = @ \cup {[seq |-> inflight.sent + 1, filters |-> filters]},
                                    !.sent = @ + 1]
    /\ lastReq' = [op |-> "GET /alerts", seq |-> inflight.sent + 1, filters |-> filters,
                   via |-> via]

\* handleFilterChange(key, value): the page is reset to 1; the effect on
\* [filters] calls fetchAlerts.
FilterChange ==
    /\ inflight.sent < MaxFetches
    /\ \E r \in RiskFilterValues, st \in StatusFilterValues :
        /\ (r = client.filters.riskLevel \/ st = client.filters.status)
        /\ fetchAlerts(client, [riskLevel |-> r, status |-> st, page |-> 1],
                       "handleFilterChange")
    /\ UNCHANGED <<product, supplier, shipment, alert, resp, calc, userAccount>>

\* handlePageChange(page)
PageChange ==
    /\ inflight.sent < MaxFetches
    /\ \E p \in PageValues : fetchAlerts(client, [client.filters EXCEPT !.page = p], "handlePageChange")
    /\ UNCHANGED <<product, supplier, shipment, alert, resp, calc, userAccount>>

\* Clear Filters
ClearFilters ==
    /\ inflight.sent < MaxFetches
    /\ fetchAlerts(client, DefaultFilters, "Clear Filters")
    /\ UNCHANGED <<product, supplier, shipment, alert, resp, calc, userAccount>>

\* .then(res => { setAlerts; setPagination; setLoading(false) })
FetchResolved ==
    /\ \E r \in inflight.pending :
        /\ client' = [client EXCEPT !.alerts = AlertsResponse(r.filters).alerts,
                                    !.pagination = AlertsResponse(r.filters).currentPage,
                                    !.loading = FALSE]
        /\ inflight' = [inflight EXCEPT !.pending = @ \ {r}]
        /\ resp' = [op |-> "GET /alerts", seq |-> r.seq, code |-> 200,
                    latest |-> IF r.seq = inflight.sent THEN "ok" ELSE resp.latest]
    /\ UNCHANGED <<product, supplier, shipment, alert, lastReq, calc, userAccount>>

\* .catch(() => { setError('Failed to fetch alerts'); setLoading(false) })
FetchRejected ==
    /\ \E r \in inflight.pending :
        /\ client' = [client EXCEPT !.error = "Failed to fetch alerts", !.loading = FALSE]
        /\ inflight' = [inflight EXCEPT !.pending = @ \ {r}]
        /\ resp' = [op |-> "GET /alerts", seq |-> r.seq, code |-> 500,
                    latest |-> IF r.seq = inflight.sent THEN "failed" ELSE resp.latest]
    /\ UNCHANGED <<product, supplier, shipment, alert, lastReq, calc, userAccount>>

\* What the page shows below the filters.
rendered(page) ==
    IF page.loading THEN "loading" ELSE IF page.error # "" THEN "error" ELSE "table"

\* The page after its first render and effect: the first request is sent.
InitWasteAlerts ==
    /\ product = NoDoc /\ supplier = NoDoc /\ shipment = NoDoc /\ alert = NoDoc
    /\ calc = NoCalc /\ userAccount = NoDoc
    /\ client = [page |-> "WasteAlerts", filters |-> DefaultFilters, alerts |-> NoAlerts,
                 pagination |-> NoPagination, loading |-> TRUE, error |-> ""]
    /\ inflight = [pending |-> {[seq |-> 1, filters |-> DefaultFilters]}, sent |-> 1]
    /\ lastReq = [op |-> "GET /alerts", seq |-> 1, filters |-> DefaultFilters,
                  via |-> "useEffect"]
    /\ resp = [op |-> "none", seq |-> 0, code |-> 0, latest |-> "pending"]

NextWasteAlerts ==
    \/ FilterChange
    \/ PageChange
    \/ ClearFilters
    \/ FetchResolved
    \/ FetchRejected

SpecWasteAlerts == InitWasteAlerts /\ [][NextWasteAlerts]_vars

NoFetchInFlight == inflight.pending = {}

\* C29: once no fetch is in flight and the request sent last has succeeded,
\* the alerts and the pagination shown are the response to the filters
\* selected last; loading is false only when no request is pending.
C29_LatestFiltersShown ==
    /\ (NoFetchInFlight /\ resp.latest = "ok")
          => /\ client.alerts = AlertsResponse(client.filters).alerts
             /\ client.pagination = AlertsResponse(client.filters).currentPage
    /\ ~client.loading => NoFetchInFlight

\* C30: when the GET /alerts sent last has succeeded and nothing is in
\* flight, the page renders the alerts table, whatever failed before.
C30_FailedFetchRecoverable ==
    (NoFetchInFlight /\ resp.latest = "ok") => rendered(client) = "table"

====
